---- MODULE Spec2Model ----
(***************************************************************************)
(* TECTO: the token engine (src/src/core.ts), the in-memory key store      *)
(* (src/src/keystore.ts) and the security primitives (src/src/security.ts) *)
(* as a state machine.                                                     *)
(*                                                                         *)
(* Strings are sequences of one-character strings, byte arrays are         *)
(* sequences of integers 0..255.  The library functions the code calls     *)
(* (String.split, TextEncoder, JSON, @scure/base base64url, the            *)
(* XChaCha20-Poly1305 AEAD) are operators that compute what the library    *)
(* computes on the inputs the model draws.                                 *)
(***************************************************************************)
EXTENDS Integers, Sequences, FiniteSets, TLC

(* ------------------------------------------------------------------ *)
(* Optional values: undefined is <<>>, a present value v is <<v>>.     *)
(* ------------------------------------------------------------------ *)
None == <<>>

Some(v) == <<v>>

IsSome(o) == Len(o) = 1

\* A sequence or a map given by a rule, computed once element by element (TLC
\* would otherwise recompute the rule at every application).
Tuple(f) == f \o <<>>

Map(f) == f @@ <<>>

(* ------------------------------------------------------------------ *)
(* Characters and bytes                                                *)
(* ------------------------------------------------------------------ *)

\* The printable ASCII characters, code 32 (space) to 126 (~), in code order;
\* "GRAVE" stands for the grave accent (code 96), which a TLA+ string cannot hold.
Printable ==
  << " ", "!", "\"", "#", "$", "%", "&", "'", "(", ")", "*", "+", ",", "-", ".", "/",
     "0", "1", "2", "3", "4", "5", "6", "7", "8", "9", ":", ";", "<", "=", ">", "?",
     "@", "A", "B", "C", "D", "E", "F", "G", "H", "I", "J", "K", "L", "M", "N", "O",
     "P", "Q", "R", "S", "T", "U", "V", "W", "X", "Y", "Z", "[", "\\", "]", "^", "_",
     "GRAVE", "a", "b", "c", "d", "e", "f", "g", "h", "i", "j", "k", "l", "m", "n", "o",
     "p", "q", "r", "s", "t", "u", "v", "w", "x", "y", "z", "{", "|", "}", "~" >>

PrintableSet == {Printable[i] : i \in 1..Len(Printable)}

\* The character TextDecoder substitutes for a byte that is not valid UTF-8.
Replacement == "U+FFFD"

\* Character -> UTF-8 byte (ASCII only: one byte, the code of the character).
CodeOf ==
  Map([c \in PrintableSet |-> 31 + (CHOOSE i \in 1..Len(Printable) : Printable[i] = c)])

\* new TextEncoder().encode(s), for a string of printable ASCII characters.
TextEncode(s) == Tuple([i \in 1..Len(s) |-> CodeOf[s[i]]])

\* new TextDecoder().decode(bytes): never throws; a byte outside the
\* printable ASCII range decodes to a character that is none of them.
TextDecode(bytes) ==
  Tuple([i \in 1..Len(bytes) |->
           IF bytes[i] >= 32 /\ bytes[i] <= 126 THEN Printable[bytes[i] - 31]
           ELSE Replacement])

(* ------------------------------------------------------------------ *)
(* String.prototype.split(".")                                         *)
(* ------------------------------------------------------------------ *)
\* the smallest element of a non-empty set of integers
Min(S) == CHOOSE m \in S : \A k \in S : m <= k

\* s.split("."): the j-th segment lies between the (j-1)-th and the j-th dot
Split(s) ==
  LET dots == {i \in 1..Len(s) : s[i] = "."}
      \* the position of the j-th dot; 0 and Len(s) + 1 bound the string
      dot(j) == IF j = 0 THEN 0
                ELSE IF j > Cardinality(dots) THEN Len(s) + 1
                ELSE CHOOSE d \in dots : Cardinality({e \in dots : e < d}) = j - 1
  IN Tuple([j \in 1..(Cardinality(dots) + 1) |-> SubSeq(s, dot(j - 1) + 1, dot(j) - 1)])

(* ------------------------------------------------------------------ *)
(* @scure/base base64url = chain(radix2(6), alphabet, padding(6), join) *)
(* ------------------------------------------------------------------ *)
B64Alphabet ==
  << "A", "B", "C", "D", "E", "F", "G", "H", "I", "J", "K", "L", "M", "N", "O", "P",
     "Q", "R", "S", "T", "U", "V", "W", "X", "Y", "Z", "a", "b", "c", "d", "e", "f",
     "g", "h", "i", "j", "k", "l", "m", "n", "o", "p", "q", "r", "s", "t", "u", "v",
     "w", "x", "y", "z", "0", "1", "2", "3", "4", "5", "6", "7", "8", "9", "-", "_" >>

B64Set == {B64Alphabet[i] : i \in 1..Len(B64Alphabet)}

B64Val ==
  Map([c \in B64Set |-> (CHOOSE i \in 1..Len(B64Alphabet) : B64Alphabet[i] = c) - 1])

B64Digit(v) == B64Alphabet[v + 1]

\* base64url.encode(bytes): three bytes give four digits; a tail of one or two
\* bytes gives two or three digits (the last one zero-filled) and '=' up to a
\* multiple of four characters
Base64urlEncode(b) ==
  LET n       == Len(b)
      digits  == (8 * n + 5) \div 6
      byte(j) == IF j <= n THEN b[j] ELSE 0
      digit(k) ==
        LET g == 3 * ((k - 1) \div 4)
            r == (k - 1) % 4
        IN CASE r = 0 -> byte(g + 1) \div 4
             [] r = 1 -> (byte(g + 1) % 4) * 16 + byte(g + 2) \div 16
             [] r = 2 -> (byte(g + 2) % 16) * 4 + byte(g + 3) \div 64
             [] r = 3 -> byte(g + 3) % 64
  IN Tuple([k \in 1..(4 * ((n + 2) \div 3)) |->
              IF k <= digits THEN B64Digit(digit(k)) ELSE "="])

RECURSIVE StripPadding(_, _)
\* padding(6).decode: drops trailing '='; end = number of characters kept.
\* Returns -1 for "string has too much padding".
StripPadding(s, end) ==
  IF end > 0 /\ s[end] = "="
  THEN IF ((end - 1) * 6) % 8 = 0 THEN -1 ELSE StripPadding(s, end - 1)
  ELSE end

\* radix2(6).decode over the digits s[1..end]: four digits give three bytes; a
\* tail of two (three) digits gives one (two) bytes and must carry no non-zero
\* bits ("Non-zero padding"); a tail of one digit is "Excess padding".
\* Returns <<FALSE>> on failure, else <<TRUE, bytes>>.
Radix2Decode(s, end) ==
  LET d(q) == B64Val[s[q]]
      byte(j) ==
        LET q   == (8 * (j - 1)) \div 6 + 1
            off == (8 * (j - 1)) % 6
        IN CASE off = 0 -> d(q) * 4 + d(q + 1) \div 16
             [] off = 2 -> (d(q) % 16) * 16 + d(q + 1) \div 4
             [] off = 4 -> (d(q) % 4) * 64 + d(q + 1)
  IN IF end % 4 = 1 THEN <<FALSE>>
     ELSE IF end % 4 = 2 /\ d(end) % 16 # 0 THEN <<FALSE>>
     ELSE IF end % 4 = 3 /\ d(end) % 4 # 0 THEN <<FALSE>>
     ELSE <<TRUE, Tuple([j \in 1..((6 * end) \div 8) |-> byte(j)])>>

\* base64url.decode(s): [ok |-> FALSE] where the library throws
Base64urlDecode(s) ==
  IF (Len(s) * 6) % 8 # 0 THEN [ok |-> FALSE, bytes |-> <<>>]
  ELSE LET end == StripPadding(s, Len(s)) IN
    IF end < 0 THEN [ok |-> FALSE, bytes |-> <<>>]
    ELSE IF \E k \in 1..end : s[k] \notin B64Set THEN [ok |-> FALSE, bytes |-> <<>>]
    ELSE LET r == Radix2Decode(s, end) IN
      IF r[1] THEN [ok |-> TRUE, bytes |-> r[2]] ELSE [ok |-> FALSE, bytes |-> <<>>]

(* ------------------------------------------------------------------ *)
(* @noble/ciphers xchacha20poly1305(key, nonce): an ideal AEAD.         *)
(* The cipher is a black box to the program.  The stand-in below is     *)
(* deterministic in (key, nonce, plaintext), keeps the lengths of the   *)
(* real one (ciphertext = plaintext length + 16-byte tag), and its tag  *)
(* depends on every byte of the key, the nonce and the ciphertext body. *)
(* ------------------------------------------------------------------ *)
RECURSIVE PowMod(_)
\* 256^k modulo the prime 32749
PowMod(k) ==
  IF k = 0 THEN 1
  ELSE IF k % 2 = 0 THEN LET r == PowMod(k \div 2) IN (r * r) % 32749
  ELSE (256 * PowMod(k - 1)) % 32749

\* the powers the model's byte strings need, computed once
Pow256 == Map([k \in 0..255 |-> PowMod(k)])

RECURSIVE WeightedSum(_, _, _)
\* the sum over i in lo..hi of b[i] * 256^(Len(b) - i), modulo the prime
WeightedSum(b, lo, hi) ==
  IF lo > hi THEN 0
  ELSE IF lo = hi THEN (b[lo] * Pow256[Len(b) - lo]) % 32749
  ELSE LET mid == (lo + hi) \div 2 IN
       (WeightedSum(b, lo, mid) + WeightedSum(b, mid + 1, hi)) % 32749

\* Horner evaluation of the bytes b in base 256 on top of acc, modulo the prime
Absorb(b, acc) == (acc * Pow256[Len(b)] + WeightedSum(b, 1, Len(b))) % 32749

\* a cipher state that leaves the key out
KeyedByNonceOnly(key, nonce) == (nonce[1] + 256 * nonce[2]) % 32749

\* the state the cipher derives from (key, nonce)
Keyed(key, nonce) == Absorb(nonce, Absorb(key, 1))

\* the keystream byte at position i
StreamByte(kn, i) == (kn * i + kn \div 128) % 256

\* the 16-byte authentication tag over the ciphertext body
TagOf(kn, body) ==
  LET h == Absorb(body, kn)
      limb(j) == IF j % 2 = 1 THEN h % 256 ELSE h \div 256
  IN Tuple([j \in 1..16 |-> (limb(j) + 16 * j) % 256])

\* xchacha20poly1305(key, nonce).encrypt(plaintext)
AeadSeal(key, nonce, pt) ==
  LET kn   == Keyed(key, nonce)
      body == Tuple([i \in 1..Len(pt) |-> (pt[i] + StreamByte(kn, i)) % 256])
  IN body \o TagOf(kn, body)

\* decryption that does not compare the tag
AeadOpenUnchecked(key, nonce, ct) ==
  IF Len(ct) < 16 THEN [ok |-> FALSE, pt |-> <<>>]
  ELSE [ok |-> TRUE,
        pt |-> [i \in 1..(Len(ct) - 16) |->
                  (ct[i] - StreamByte(Keyed(key, nonce), i) + 256) % 256] \o <<>>]

\* xchacha20poly1305(key, nonce).decrypt(ciphertext): [ok |-> FALSE] where
\* the library throws (wrong key or nonce length, ciphertext shorter than
\* the tag, tag mismatch)
AeadOpen(key, nonce, ct) ==
  IF Len(key) # 32 \/ Len(nonce) # 24 \/ Len(ct) < 16
  THEN [ok |-> FALSE, pt |-> <<>>]
  ELSE LET kn   == Keyed(key, nonce)
           n    == Len(ct) - 16
           body == SubSeq(ct, 1, n)
       IN IF SubSeq(ct, n + 1, Len(ct)) = TagOf(kn, body)
          THEN [ok |-> TRUE,
                pt |-> Tuple([i \in 1..n |-> (body[i] - StreamByte(kn, i) + 256) % 256])]
          ELSE [ok |-> FALSE, pt |-> <<>>]

(* ------------------------------------------------------------------ *)
(* JSON values, JSON.stringify and JSON.parse                          *)
(*   <<"num", n>>  <<"str", chars>>  <<"null">>  <<"bool", b>>          *)
(*   <<"arr", <<v1, ...>>>>   <<"obj", << <<key, v>>, ... >>>>          *)
(* An object keeps its members in insertion order, as a JS object does. *)
(* Numbers are integers; strings hold no quote, backslash or control    *)
(* character.                                                           *)
(* ------------------------------------------------------------------ *)
Num(n) == <<"num", n>>

Str(s) == <<"str", s>>

Null == <<"null">>

Arr(vs) == <<"arr", vs>>

Obj(members) == <<"obj", members>>

IsNum(v) == v[1] = "num"

IsObj(v) == v[1] = "obj"

\* the members of an object: a sequence of <<key, value>> with distinct keys
HasField(members, k) == \E i \in 1..Len(members) : members[i][1] = k

\* obj[k], with k present
Field(members, k) == members[CHOOSE i \in 1..Len(members) : members[i][1] = k][2]

\* an assignment that leaves a key already present alone
SetFieldIfAbsent(members, k, v) ==
  IF \E i \in 1..Len(members) : members[i][1] = k THEN members
  ELSE Append(members, <<k, v>>)

\* obj[k] = v: in place when k is present, appended otherwise
SetField(members, k, v) ==
  IF HasField(members, k)
  THEN Tuple([i \in 1..Len(members) |-> IF members[i][1] = k THEN <<k, v>> ELSE members[i]])
  ELSE Append(members, <<k, v>>)

Digits == <<"0", "1", "2", "3", "4", "5", "6", "7", "8", "9">>

DigitSet == {Digits[i] : i \in 1..Len(Digits)}

DigitVal == Map([c \in DigitSet |-> (CHOOSE i \in 1..Len(Digits) : Digits[i] = c) - 1])

RECURSIVE NatToString(_)
NatToString(n) ==
  IF n < 10 THEN <<Digits[n + 1]>> ELSE Append(NatToString(n \div 10), Digits[(n % 10) + 1])

\* String(n) for an integer n
IntToString(n) == IF n < 0 THEN <<"-">> \o NatToString(-n) ELSE NatToString(n)

RECURSIVE Stringify(_)
RECURSIVE StringifyList(_, _, _)
\* the members or elements vs[i..], comma separated
StringifyList(vs, i, isObj) ==
  IF i > Len(vs) THEN <<>>
  ELSE (IF i > 1 THEN <<",">> ELSE <<>>)
       \o (IF isObj
           THEN <<"\"">> \o vs[i][1] \o <<"\"", ":">> \o Stringify(vs[i][2])
           ELSE Stringify(vs[i]))
       \o StringifyList(vs, i + 1, isObj)

\* JSON.stringify(v)
Stringify(v) ==
  CASE v[1] = "num"  -> IntToString(v[2])
    [] v[1] = "str"  -> <<"\"">> \o v[2] \o <<"\"">>
    [] v[1] = "null" -> <<"n", "u", "l", "l">>
    [] v[1] = "bool" -> IF v[2] THEN <<"t", "r", "u", "e">> ELSE <<"f", "a", "l", "s", "e">>
    [] v[1] = "arr"  -> <<"[">> \o StringifyList(v[2], 1, FALSE) \o <<"]">>
    [] v[1] = "obj"  -> <<"{">> \o StringifyList(v[2], 1, TRUE) \o <<"}">>

\* A parse result is <<FALSE>> (SyntaxError) or <<TRUE, value, next index>>.
ParseFail == <<FALSE>>

RECURSIVE SkipWs(_, _)
SkipWs(s, i) == IF i <= Len(s) /\ s[i] = " " THEN SkipWs(s, i + 1) ELSE i

HasAt(s, i, lit) == i + Len(lit) - 1 <= Len(s) /\ SubSeq(s, i, i + Len(lit) - 1) = lit

RECURSIVE ScanDigits(_, _, _)
\* the digits from s[i] on: <<value, next index>>
ScanDigits(s, i, acc) ==
  IF i <= Len(s) /\ s[i] \in DigitSet
  THEN ScanDigits(s, i + 1, acc * 10 + DigitVal[s[i]])
  ELSE <<acc, i>>

\* -?(0|[1-9][0-9]*) at s[i]; a fraction or an exponent is outside the model
ParseNumber(s, i) ==
  LET neg == s[i] = "-"
      j   == IF neg THEN i + 1 ELSE i
  IN IF j > Len(s) \/ s[j] \notin DigitSet THEN ParseFail
     ELSE IF s[j] = "0"
       THEN IF j + 1 <= Len(s) /\ s[j + 1] \in DigitSet THEN ParseFail
            ELSE <<TRUE, Num(0), j + 1>>
       ELSE LET d == ScanDigits(s, j, 0) IN
            <<TRUE, Num(IF neg THEN -d[1] ELSE d[1]), d[2]>>

\* the index of the closing quote of a string whose body starts at s[i]; 0 if
\* there is none or the body holds a character the model's strings do not
ScanString(s, i) ==
  LET quotes == {j \in i..Len(s) : s[j] = "\""} IN
  IF quotes = {} THEN 0
  ELSE LET e == Min(quotes) IN
    IF \E j \in i..(e - 1) : s[j] = "\\" \/ s[j] \notin PrintableSet THEN 0 ELSE e

\* a string literal whose opening quote is s[i]
ParseString(s, i) ==
  LET e == ScanString(s, i + 1) IN
  IF e = 0 THEN ParseFail ELSE <<TRUE, Str(SubSeq(s, i + 1, e - 1)), e + 1>>

RECURSIVE ParseValue(_, _)
RECURSIVE ParseMembers(_, _, _)
RECURSIVE ParseElements(_, _, _)

\* after '{' or ',': "key" : value, then ',' or '}'
ParseMembers(s, i0, members) ==
  LET i == SkipWs(s, i0) IN
  IF i > Len(s) \/ s[i] # "\"" THEN ParseFail
  ELSE LET k == ParseString(s, i) IN
    IF ~k[1] THEN ParseFail
    ELSE LET c == SkipWs(s, k[3]) IN
      IF c > Len(s) \/ s[c] # ":" THEN ParseFail
      ELSE LET v == ParseValue(s, SkipWs(s, c + 1)) IN
        IF ~v[1] THEN ParseFail
        ELSE LET n    == SkipWs(s, v[3])
                 next == SetField(members, k[2][2], v[2])
             IN IF n > Len(s) THEN ParseFail
                ELSE IF s[n] = "}" THEN <<TRUE, Obj(next), n + 1>>
                ELSE IF s[n] = "," THEN ParseMembers(s, n + 1, next)
                ELSE ParseFail

\* after '[' or ',': value, then ',' or ']'
ParseElements(s, i0, elems) ==
  LET v == ParseValue(s, SkipWs(s, i0)) IN
  IF ~v[1] THEN ParseFail
  ELSE LET n == SkipWs(s, v[3]) IN
    IF n > Len(s) THEN ParseFail
    ELSE IF s[n] = "]" THEN <<TRUE, Arr(Append(elems, v[2])), n + 1>>
    ELSE IF s[n] = "," THEN ParseElements(s, n + 1, Append(elems, v[2]))
    ELSE ParseFail

ParseValue(s, i) ==
  IF i > Len(s) THEN ParseFail
  ELSE IF s[i] = "{" THEN
    LET j == SkipWs(s, i + 1) IN
    IF j <= Len(s) /\ s[j] = "}" THEN <<TRUE, Obj(<<>>), j + 1>>
    ELSE ParseMembers(s, i + 1, <<>>)
  ELSE IF s[i] = "[" THEN
    LET j == SkipWs(s, i + 1) IN
    IF j <= Len(s) /\ s[j] = "]" THEN <<TRUE, Arr(<<>>), j + 1>>
    ELSE ParseElements(s, i + 1, <<>>)
  ELSE IF s[i] = "\"" THEN ParseString(s, i)
  ELSE IF s[i] = "-" \/ s[i] \in DigitSet THEN ParseNumber(s, i)
  ELSE IF HasAt(s, i, <<"n", "u", "l", "l">>) THEN <<TRUE, Null, i + 4>>
  ELSE IF HasAt(s, i, <<"t", "r", "u", "e">>) THEN <<TRUE, <<"bool", TRUE>>, i + 4>>
  ELSE IF HasAt(s, i, <<"f", "a", "l", "s", "e">>) THEN <<TRUE, <<"bool", FALSE>>, i + 5>>
  ELSE ParseFail

\* JSON.parse(s): [ok |-> FALSE] where it throws SyntaxError
JsonParse(s) ==
  LET v == ParseValue(s, SkipWs(s, 1)) IN
  IF v[1] /\ SkipWs(s, v[3]) > Len(s)
  THEN [ok |-> TRUE, value |-> v[2]]
  ELSE [ok |-> FALSE, value |-> Null]

(* ------------------------------------------------------------------ *)
(* src/src/errors.ts: errors are records; a message is a tuple of its   *)
(* fixed text and the values interpolated into it.                      *)
(* ------------------------------------------------------------------ *)
TectoError(message, code) == [name |-> "TectoError", code |-> code, message |-> message]

TokenExpiredError(expiredAt) ==
  [name |-> "TokenExpiredError", code |-> "TECTO_TOKEN_EXPIRED",
   message |-> <<"Token has expired">>, expiredAt |-> expiredAt]

InvalidSignatureError ==
  [name |-> "InvalidSignatureError", code |-> "TECTO_INVALID_TOKEN",
   message |-> <<"Invalid token">>]

KeyError(message) == [name |-> "KeyError", code |-> "TECTO_KEY_ERROR", message |-> message]

TokenNotActiveError(activeAt) ==
  [name |-> "TokenNotActiveError", code |-> "TECTO_TOKEN_NOT_ACTIVE",
   message |-> <<"Token is not yet active">>, activeAt |-> activeAt]

\* what the runtime throws on a property read of null
TypeError == [name |-> "TypeError", code |-> "none", message |-> <<"null has no properties">>]

\* new Date(ms): the time value in milliseconds
Date(ms) == ms

\* the outcome of a call: a returned value or a thrown error
Return(v) == [ok |-> TRUE, value |-> v]

Throw(e) == [ok |-> FALSE, error |-> e]

Threw(out, name) == ~out.ok /\ out.error.name = name

\* the four key errors of the key-store contract are KeyError with these texts
KeyInvalid(out) ==
  Threw(out, "KeyError")
  /\ out.error.message[1] \in {"Key must be exactly 32 bytes", "Key must not be all zeros",
                               "Key must not be a repeating single byte",
                               "Key has insufficient entropy"}

KeyNotFound(out) == Threw(out, "KeyError") /\ out.error.message[1] = "Key not found"

KeyInUse(out) ==
  Threw(out, "KeyError") /\ out.error.message[1] = "Cannot remove the current active key"

KeyStoreEmpty(out) == Threw(out, "KeyError") /\ out.error.message[1] = "No keys in the store"

InvalidToken(out) == ~out.ok /\ out.error = InvalidSignatureError

TokenExpired(out) == Threw(out, "TokenExpiredError")

TokenNotActive(out) == Threw(out, "TokenNotActiveError")

(* ------------------------------------------------------------------ *)
(* src/src/security.ts                                                 *)
(* ------------------------------------------------------------------ *)
KEY_LENGTH == 32

MIN_UNIQUE_BYTES == 8

\* an entropy check that also refuses a key of exactly 8 distinct bytes
assertEntropyOffByOne(key) ==
  IF Len(key) # KEY_LENGTH
  THEN Throw(KeyError(<<"Key must be exactly 32 bytes", Len(key)>>))
  ELSE IF \A i \in 1..Len(key) : key[i] = 0
  THEN Throw(KeyError(<<"Key must not be all zeros">>))
  ELSE IF \A i \in 2..Len(key) : key[i] = key[1]
  THEN Throw(KeyError(<<"Key must not be a repeating single byte">>))
  ELSE LET uniqueBytes == {key[i] : i \in 1..Len(key)} IN
    IF Cardinality(uniqueBytes) <= MIN_UNIQUE_BYTES
    THEN Throw(KeyError(<<"Key has insufficient entropy", Cardinality(uniqueBytes)>>))
    ELSE Return(<<>>)

RECURSIVE BitXor(_, _)
\* x ^ y on non-negative integers
BitXor(x, y) ==
  IF x = 0 /\ y = 0 THEN 0
  ELSE (IF x % 2 = y % 2 THEN 0 ELSE 1) + 2 * BitXor(x \div 2, y \div 2)

RECURSIVE BitOr(_, _)
\* x | y on non-negative integers
BitOr(x, y) ==
  IF x = 0 /\ y = 0 THEN 0
  ELSE (IF x % 2 = 1 \/ y % 2 = 1 THEN 1 ELSE 0) + 2 * BitOr(x \div 2, y \div 2)

\* a[i] ?? 0, with i counted from 1
ByteAt(a, i) == IF i <= Len(a) THEN a[i] ELSE 0

RECURSIVE CompareLoopEarlyExit(_, _, _, _, _)
\* a loop that returns at the first byte pair that differs
CompareLoopEarlyExit(a, b, i, diff, steps) ==
  IF i > Len(a) THEN [diff |-> diff, steps |-> steps]
  ELSE IF ByteAt(a, i) # ByteAt(b, i) THEN [diff |-> 1, steps |-> steps + 1]
  ELSE CompareLoopEarlyExit(a, b, i + 1, diff, steps + 1)

RECURSIVE CompareLoop(_, _, _, _, _)
\* for (let i = 0; i < a.byteLength; i++) diff |= (a[i] ?? 0) ^ (b[i] ?? 0):
\* the diff and the number of passes through the body
CompareLoop(a, b, i, diff, steps) ==
  IF i > Len(a) THEN [diff |-> diff, steps |-> steps]
  ELSE CompareLoop(a, b, i + 1, BitOr(diff, BitXor(ByteAt(a, i), ByteAt(b, i))), steps + 1)

\* a comparison without the test of the lengths
constantTimeCompareUnchecked(a, b) ==
  LET r == CompareLoop(a, b, 1, 0, 0) IN [value |-> r.diff = 0, steps |-> r.steps]

\* constantTimeCompare(a, b): the value returned and the number of passes
\* through the loop body the call made
constantTimeCompare(a, b) ==
  IF Len(a) # Len(b) THEN [value |-> FALSE, steps |-> 0]
  ELSE LET r == CompareLoop(a, b, 1, 0, 0) IN [value |-> r.diff = 0, steps |-> r.steps]

\* assertEntropy(key): Return or Throw(KeyError)
assertEntropy(key) ==
  IF Len(key) # KEY_LENGTH
  THEN Throw(KeyError(<<"Key must be exactly 32 bytes", Len(key)>>))
  ELSE IF \A i \in 1..Len(key) : key[i] = 0
  THEN Throw(KeyError(<<"Key must not be all zeros">>))
  ELSE IF \A i \in 2..Len(key) : key[i] = key[1]
  THEN Throw(KeyError(<<"Key must not be a repeating single byte">>))
  ELSE LET uniqueBytes == {key[i] : i \in 1..Len(key)} IN
    IF Cardinality(uniqueBytes) < MIN_UNIQUE_BYTES
    THEN Throw(KeyError(<<"Key has insufficient entropy", Cardinality(uniqueBytes)>>))
    ELSE Return(<<>>)

(* ------------------------------------------------------------------ *)
(* src/src/keystore.ts: MemoryKeyStore                                 *)
(* A store is [keys, currentKeyId]; keys maps a key id to the address  *)
(* of its Uint8Array in the heap, so that a reference handed out by    *)
(* getKey aliases the stored buffer.                                   *)
(* ------------------------------------------------------------------ *)
EmptyMap == <<>>

\* new MemoryKeyStore()
NewStore == [keys |-> EmptyMap, currentKeyId |-> None]

\* new Uint8Array(...): the lowest address the heap does not hold
Alloc(h) == CHOOSE a \in 1..(Cardinality(DOMAIN h) + 1) : a \notin DOMAIN h

MapSet(m, k, v) == Map([x \in DOMAIN m \cup {k} |-> IF x = k THEN v ELSE m[x]])

MapDelete(m, k) == Map([x \in DOMAIN m \ {k} |-> m[x]])

\* this.keys.get(id), undefined as None
MapGet(m, k) == IF k \in DOMAIN m THEN Some(m[k]) ELSE None

\* Each operation takes the store and the heap and gives the store and the
\* heap after the call and its outcome.
Effect(st, h, out) == [store |-> st, heap |-> h, out |-> out]

\* an addKey without the call to assertEntropy
addKeyUnvalidated(st, h, id, secret) ==
  LET cloned == Alloc(h) IN
  Effect([keys |-> MapSet(st.keys, id, cloned),
          currentKeyId |-> IF st.currentKeyId = None THEN Some(id) ELSE st.currentKeyId],
         MapSet(h, cloned, secret),
         Return(<<>>))

\* an addKey that makes every key it stores the current one
addKeyAlwaysCurrent(st, h, id, secret) ==
  LET checked == assertEntropy(secret) IN
  IF ~checked.ok THEN Effect(st, h, checked)
  ELSE LET cloned == Alloc(h) IN
    Effect([keys |-> MapSet(st.keys, id, cloned), currentKeyId |-> Some(id)],
           MapSet(h, cloned, secret),
           Return(<<>>))

\* an addKey that writes the entry before it checks the secret
addKeyThenCheck(st, h, id, secret) ==
  LET checked == assertEntropy(secret)
      cloned == Alloc(h)
  IN Effect([keys |-> MapSet(st.keys, id, cloned),
             currentKeyId |-> IF st.currentKeyId = None THEN Some(id) ELSE st.currentKeyId],
            MapSet(h, cloned, secret),
            IF checked.ok THEN Return(<<>>) ELSE checked)

\* an addKey that leaves the entry of an id the store already holds as it is
addKeyKeepFirst(st, h, id, secret) ==
  LET checked == assertEntropy(secret) IN
  IF ~checked.ok THEN Effect(st, h, checked)
  ELSE IF id \in DOMAIN st.keys THEN Effect(st, h, Return(<<>>))
  ELSE LET cloned == Alloc(h) IN
    Effect([keys |-> MapSet(st.keys, id, cloned),
            currentKeyId |-> IF st.currentKeyId = None THEN Some(id) ELSE st.currentKeyId],
           MapSet(h, cloned, secret),
           Return(<<>>))

addKey(st, h, id, secret) ==
  LET checked == assertEntropy(secret) IN
  IF ~checked.ok THEN Effect(st, h, checked)
  ELSE LET cloned == Alloc(h) IN
    Effect([keys |-> MapSet(st.keys, id, cloned),
            currentKeyId |-> IF st.currentKeyId = None THEN Some(id) ELSE st.currentKeyId],
           MapSet(h, cloned, secret),
           Return(<<>>))

\* an addKey that keeps the caller's buffer itself instead of a clone
addKeyAliased(st, h, id, buffer) ==
  LET checked == assertEntropy(h[buffer]) IN
  IF ~checked.ok THEN Effect(st, h, checked)
  ELSE Effect([keys |-> MapSet(st.keys, id, buffer),
               currentKeyId |-> IF st.currentKeyId = None THEN Some(id) ELSE st.currentKeyId],
              h,
              Return(<<>>))

\* addKey(id, secret) with secret a buffer of the caller, given by its
\* address: the store reads its bytes and keeps a clone of them
addKeyOf(st, h, id, buffer) == addKey(st, h, id, h[buffer])

\* a getKey that hands the buffer over and drops the entry
getKeyTaking(st, h, id) ==
  LET key == MapGet(st.keys, id) IN
  IF key = None THEN Effect(st, h, Throw(KeyError(<<"Key not found", id>>)))
  ELSE Effect([st EXCEPT !.keys = MapDelete(st.keys, id)], h, Return(key[1]))

\* the outcome carries the address of the internal buffer
getKey(st, h, id) ==
  LET key == MapGet(st.keys, id) IN
  IF key = None THEN Effect(st, h, Throw(KeyError(<<"Key not found", id>>)))
  ELSE Effect(st, h, Return(key[1]))

\* a rotate that makes newId current whether or not addKey accepted the secret
rotateUnchecked(st, h, newId, newSecret) ==
  LET added == addKey(st, h, newId, newSecret) IN
  Effect([added.store EXCEPT !.currentKeyId = Some(newId)], added.heap, added.out)

\* a rotate that stores the new key in place of the one that was current
rotateReplacing(st, h, newId, newSecret) ==
  LET added == addKey(st, h, newId, newSecret) IN
  IF ~added.out.ok THEN added
  ELSE Effect([keys |-> IF st.currentKeyId = None \/ st.currentKeyId = Some(newId)
                        THEN added.store.keys
                        ELSE MapDelete(added.store.keys, st.currentKeyId[1]),
               currentKeyId |-> Some(newId)],
              added.heap, Return(<<>>))

\* a getCurrentKeyId that answers the empty string when no key is current
getCurrentKeyIdOrEmpty(st, h) ==
  IF st.currentKeyId = None
  THEN Effect(st, h, Return(<<>>))
  ELSE Effect(st, h, Return(st.currentKeyId[1]))

rotate(st, h, newId, newSecret) ==
  LET added == addKey(st, h, newId, newSecret) IN
  IF ~added.out.ok THEN added
  ELSE Effect([added.store EXCEPT !.currentKeyId = Some(newId)], added.heap, Return(<<>>))

\* a removeKey without the test for the current key
removeKeyUnguarded(st, h, id) ==
  LET key == MapGet(st.keys, id) IN
  IF key = None THEN Effect(st, h, Throw(KeyError(<<"Key not found", id>>)))
  ELSE Effect([st EXCEPT !.keys = MapDelete(st.keys, id)],
              [h EXCEPT ![key[1]] = Tuple([i \in 1..Len(h[key[1]]) |-> 0])],
              Return(<<>>))

\* a removeKey that reports success and leaves the entry where it is
removeKeyIgnored(st, h, id) ==
  LET key == MapGet(st.keys, id) IN
  IF key = None THEN Effect(st, h, Throw(KeyError(<<"Key not found", id>>)))
  ELSE IF st.currentKeyId = Some(id)
  THEN Effect(st, h, Throw(KeyError(<<"Cannot remove the current active key">>)))
  ELSE Effect(st, h, Return(<<>>))

\* a removeKey that refuses the current key only while other keys remain
removeKeyLastAllowed(st, h, id) ==
  LET key == MapGet(st.keys, id) IN
  IF key = None THEN Effect(st, h, Throw(KeyError(<<"Key not found", id>>)))
  ELSE IF st.currentKeyId = Some(id) /\ DOMAIN st.keys # {id}
  THEN Effect(st, h, Throw(KeyError(<<"Cannot remove the current active key">>)))
  ELSE Effect([st EXCEPT !.keys = MapDelete(st.keys, id)],
              [h EXCEPT ![key[1]] = Tuple([i \in 1..Len(h[key[1]]) |-> 0])],
              Return(<<>>))

\* a removeKey that deletes the entry and leaves the bytes of the buffer
removeKeyNoWipe(st, h, id) ==
  LET key == MapGet(st.keys, id) IN
  IF key = None THEN Effect(st, h, Throw(KeyError(<<"Key not found", id>>)))
  ELSE IF st.currentKeyId = Some(id)
  THEN Effect(st, h, Throw(KeyError(<<"Cannot remove the current active key">>)))
  ELSE Effect([st EXCEPT !.keys = MapDelete(st.keys, id)], h, Return(<<>>))

removeKey(st, h, id) ==
  LET key == MapGet(st.keys, id) IN
  IF key = None THEN Effect(st, h, Throw(KeyError(<<"Key not found", id>>)))
  ELSE IF st.currentKeyId = Some(id)
  THEN Effect(st, h, Throw(KeyError(<<"Cannot remove the current active key">>)))
  ELSE Effect([st EXCEPT !.keys = MapDelete(st.keys, id)],
              [h EXCEPT ![key[1]] = Tuple([i \in 1..Len(h[key[1]]) |-> 0])],
              Return(<<>>))

getCurrentKeyId(st, h) ==
  IF st.currentKeyId = None
  THEN Effect(st, h, Throw(KeyError(<<"No keys in the store">>)))
  ELSE Effect(st, h, Return(st.currentKeyId[1]))

size(st) == Cardinality(DOMAIN st.keys)

(* ------------------------------------------------------------------ *)
(* src/examples/sqlite/index.ts                                        *)
(* ------------------------------------------------------------------ *)
\* what bun:sqlite throws when a statement breaks the PRIMARY KEY of the table
SQLiteError ==
  [name |-> "SQLiteError", code |-> "SQLITE_CONSTRAINT_PRIMARYKEY",
   message |-> <<"UNIQUE constraint failed: tecto_keys.id">>]

\* the outcome of a SqliteKeyStore method: the in-memory store, the heap and
\* the table after the call, and what it returned or threw
SqliteEffect(st, h, table, out) == [store |-> st, heap |-> h, db |-> table, out |-> out]

\* INSERT INTO tecto_keys (id, secret, is_current) VALUES (?, ?, ?), with
\* created_at the second of the call
Insert(table, id, secret, is_current, at) ==
  IF \E i \in 1..Len(table) : table[i].id = id
  THEN Throw(SQLiteError)
  ELSE Return(Append(table, [id |-> id, secret |-> secret, is_current |-> is_current,
                             created_at |-> at]))

\* UPDATE tecto_keys SET is_current = 0
ClearCurrent(table) == Tuple([i \in 1..Len(table) |-> [table[i] EXCEPT !.is_current = 0]])

\* DELETE FROM tecto_keys WHERE id = ?
Delete(table, id) ==
  LET kept(row) == row.id # id IN SelectSeq(table, kept)

\* the orders in which SELECT ... ORDER BY created_at ASC may deliver the
\* rows: any order that is ascending in created_at
RowOrders(table) ==
  {p \in [1..Len(table) -> 1..Len(table)] :
     /\ \A i, j \in 1..Len(table) : i # j => p[i] # p[j]
     /\ \A i, j \in 1..Len(table) :
          i < j => table[p[i]].created_at <= table[p[j]].created_at}

RECURSIVE LoadRows(_, _, _)
\* the loop of loadFromDb over the rows from the i-th on
LoadRows(rows, i, e) ==
  IF i > Len(rows) \/ ~e.out.ok THEN e
  ELSE LET added == addKey(e.store, e.heap, rows[i].id, rows[i].secret) IN
    IF ~added.out.ok THEN added
    ELSE IF rows[i].is_current = 1
    THEN LoadRows(rows, i + 1, rotate(added.store, added.heap, rows[i].id, rows[i].secret))
    ELSE LoadRows(rows, i + 1, added)

\* new SqliteKeyStore(dbPath) on a file that holds table: a new MemoryKeyStore
\* filled by loadFromDb from the rows in the order the query delivers them
loadFromDb(table, order, h) ==
  LoadRows(Tuple([i \in 1..Len(table) |-> table[order[i]]]), 1, Effect(NewStore, h, Return(<<>>)))

\* SqliteKeyStore.addKey
sqliteAddKey(st, h, table, id, secret, at) ==
  LET checked == assertEntropy(secret) IN
  IF ~checked.ok THEN SqliteEffect(st, h, table, checked)
  ELSE LET added == addKey(st, h, id, secret) IN
    IF ~added.out.ok THEN SqliteEffect(added.store, added.heap, table, added.out)
    ELSE LET current == getCurrentKeyId(added.store, added.heap)
             cur == IF current.out.value = id THEN 1 ELSE 0
             inserted == Insert(table, id, secret, cur, at)
         IN IF ~inserted.ok
            THEN SqliteEffect(current.store, current.heap, table, inserted)
            ELSE SqliteEffect(current.store, current.heap, inserted.value, Return(<<>>))

\* SqliteKeyStore.rotate
sqliteRotate(st, h, table, newId, newSecret, at) ==
  LET checked == assertEntropy(newSecret) IN
  IF ~checked.ok THEN SqliteEffect(st, h, table, checked)
  ELSE LET cleared == ClearCurrent(table)
           rotated == rotate(st, h, newId, newSecret)
       IN IF ~rotated.out.ok THEN SqliteEffect(rotated.store, rotated.heap, cleared, rotated.out)
          ELSE LET inserted == Insert(cleared, newId, newSecret, 1, at) IN
            IF ~inserted.ok
            THEN SqliteEffect(rotated.store, rotated.heap, cleared, inserted)
            ELSE SqliteEffect(rotated.store, rotated.heap, inserted.value, Return(<<>>))

\* SqliteKeyStore.removeKey
sqliteRemoveKey(st, h, table, id) ==
  LET removed == removeKey(st, h, id) IN
  IF ~removed.out.ok THEN SqliteEffect(removed.store, removed.heap, table, removed.out)
  ELSE SqliteEffect(removed.store, removed.heap, Delete(table, id), Return(<<>>))

(* ------------------------------------------------------------------ *)
(* src/src/core.ts                                                     *)
(* ------------------------------------------------------------------ *)
TECTO_PREFIX == <<"t", "e", "c", "t", "o">>

TECTO_VERSION == <<"v", "1">>

NONCE_LENGTH == 24

SEGMENT_COUNT == 5

RECURSIVE DigitRunEnd(_, _)
\* the index after the run of digits that starts at d[i]
DigitRunEnd(d, i) == IF i <= Len(d) /\ d[i] \in DigitSet THEN DigitRunEnd(d, i + 1) ELSE i

\* String.prototype.toLowerCase on the unit letters
ToLowerCase(c) ==
  CASE c = "S" -> "s" [] c = "M" -> "m" [] c = "H" -> "h" [] c = "D" -> "d" [] OTHER -> c

\* the characters \s matches, among those of the model's strings
WhiteSpace == {" ", "\t", "\n", "\r", "\f"}

RECURSIVE SkipSpace(_, _)
\* the index after the run of \s characters that starts at d[i]
SkipSpace(d, i) == IF i <= Len(d) /\ d[i] \in WhiteSpace THEN SkipSpace(d, i + 1) ELSE i

\* /^(\d+)\s*(s|m|h|d)$/i.exec(duration): None, or Some(<<digits, unit>>)
DurationMatch(duration) ==
  LET e == DigitRunEnd(duration, 1)
      u == SkipSpace(duration, e)
  IN IF e > 1 /\ u = Len(duration) /\ ToLowerCase(duration[u]) \in {"s", "m", "h", "d"}
     THEN Some(<<SubSeq(duration, 1, e - 1), duration[u]>>)
     ELSE None

\* Number.parseInt(digits, 10)
ParseInt(digits) == ScanDigits(digits, 1, 0)[1]

\* a parseDuration that looks the unit up as it was written
parseDurationCaseKept(duration) ==
  LET match == DurationMatch(duration) IN
  IF match = None
  THEN Throw(TectoError(<<"Invalid duration format", duration>>, "TECTO_INVALID_DURATION"))
  ELSE LET value == ParseInt(match[1][1])
           unit  == match[1][2]
       IN CASE unit = "s" -> Return(value * 1)
            [] unit = "m" -> Return(value * 60)
            [] unit = "h" -> Return(value * 3600)
            [] unit = "d" -> Return(value * 86400)
            [] OTHER -> Throw(TectoError(<<"Unknown duration unit", unit>>,
                                         "TECTO_INVALID_DURATION"))

parseDuration(duration) ==
  LET match == DurationMatch(duration) IN
  IF match = None
  THEN Throw(TectoError(<<"Invalid duration format", duration>>, "TECTO_INVALID_DURATION"))
  ELSE LET value == ParseInt(match[1][1])
           unit  == ToLowerCase(match[1][2])
       IN CASE unit = "s" -> Return(value * 1)
            [] unit = "m" -> Return(value * 60)
            [] unit = "h" -> Return(value * 3600)
            [] unit = "d" -> Return(value * 86400)
            [] OTHER -> Throw(TectoError(<<"Unknown duration unit", unit>>,
                                         "TECTO_INVALID_DURATION"))

HexDigits == <<"0", "1", "2", "3", "4", "5", "6", "7", "8", "9", "a", "b", "c", "d", "e", "f">>

\* a generateJti that renders the bytes in upper-case hexadecimal
generateJtiUpperCase(random) ==
  Tuple([k \in 1..(2 * Len(random)) |->
           LET b == random[(k + 1) \div 2]
               upper == <<"0", "1", "2", "3", "4", "5", "6", "7", "8", "9",
                          "A", "B", "C", "D", "E", "F">>
           IN IF k % 2 = 1 THEN upper[(b \div 16) + 1] ELSE upper[(b % 16) + 1]])

\* generateJti(), on the 16 bytes crypto.getRandomValues filled in:
\* b.toString(16).padStart(2, "0") for every byte, joined
generateJti(random) ==
  Tuple([k \in 1..(2 * Len(random)) |->
           LET b == random[(k + 1) \div 2] IN
           IF k % 2 = 1 THEN HexDigits[(b \div 16) + 1] ELSE HexDigits[(b % 16) + 1]])

\* SignOptions: every field optional; no options at all is NoOptions
NoOptions ==
  [expiresIn |-> None, issuer |-> None, audience |-> None, jti |-> None, notBefore |-> None]

\* a string in a condition: set and not empty
Truthy(o) == IsSome(o) /\ Len(o[1]) > 0

K_iat == <<"i", "a", "t">>

K_jti == <<"j", "t", "i">>

K_exp == <<"e", "x", "p">>

K_nbf == <<"n", "b", "f">>

K_iss == <<"i", "s", "s">>

K_aud == <<"a", "u", "d">>

\* the framed token string
Frame(kid, nonceB64, ciphertextB64) ==
  TECTO_PREFIX \o <<".">> \o TECTO_VERSION \o <<".">> \o kid \o <<".">> \o nonceB64
  \o <<".">> \o ciphertextB64

\* the call to crypto.getRandomValues left out: the buffer stays as allocated
getRandomValuesSkipped(buffer, random) == buffer

\* crypto.getRandomValues(buffer): the buffer filled with the bytes the
\* generator delivers
getRandomValues(buffer, random) == Tuple([i \in 1..Len(buffer) |-> random[i]])

\* TectoCoder.encrypt(payload, options) at clock second now; payload is the
\* member list of the caller's object, randomJti and randomNonce the bytes
\* the two crypto.getRandomValues calls deliver
encrypt(st, h, now, payload, options, randomJti, randomNonce) ==
  LET current == getCurrentKeyId(st, h)
      kid == current.out
  IN
  IF ~kid.ok THEN current
  ELSE LET got == getKey(current.store, current.heap, kid.value)
           key == got.out
           st1 == got.store
           h1  == got.heap
       IN
    IF ~key.ok THEN got
    ELSE
      LET c0 == SetField(
                  SetField(payload, K_iat, Num(now)), K_jti,
                  Str(IF IsSome(options.jti) THEN options.jti[1] ELSE generateJti(randomJti)))
          exp == IF Truthy(options.expiresIn)
                 THEN parseDuration(options.expiresIn[1]) ELSE Return(0)
          nbf == IF Truthy(options.notBefore)
                 THEN parseDuration(options.notBefore[1]) ELSE Return(0)
      IN IF ~exp.ok THEN Effect(st1, h1, exp)
         ELSE IF ~nbf.ok THEN Effect(st1, h1, nbf)
         ELSE
           LET c1 == IF Truthy(options.expiresIn)
                     THEN SetField(c0, K_exp, Num(now + exp.value)) ELSE c0
               c2 == IF Truthy(options.notBefore)
                     THEN SetField(c1, K_nbf, Num(now + nbf.value)) ELSE c1
               c3 == IF Truthy(options.issuer)
                     THEN SetField(c2, K_iss, Str(options.issuer[1])) ELSE c2
               claims == IF Truthy(options.audience)
                         THEN SetField(c3, K_aud, Str(options.audience[1])) ELSE c3
               plaintext  == TextEncode(Stringify(Obj(claims)))
               nonce      == getRandomValues(Tuple([i \in 1..NONCE_LENGTH |-> 0]),
                                             randomNonce)
               ciphertext == AeadSeal(h1[key.value], nonce, plaintext)
           IN Effect(st1, h1,
                     Return(Frame(kid.value, Base64urlEncode(nonce),
                                  Base64urlEncode(ciphertext))))

\* the type test against "string" for "number"
IsStringField(payload, k) ==
  payload[1] = "obj"
  /\ (\E i \in 1..Len(payload[2]) : payload[2][i][1] = k /\ payload[2][i][2][1] = "str")

\* typeof payload[k] === "number"
IsNumberField(payload, k) ==
  IsObj(payload) /\ HasField(payload[2], k) /\ IsNum(Field(payload[2], k))

\* the tag test with && for ||
WrongTagsBoth(prefix, version) == prefix # TECTO_PREFIX /\ version # TECTO_VERSION

\* prefix !== TECTO_PREFIX || version !== TECTO_VERSION
WrongTags(prefix, version) == prefix # TECTO_PREFIX \/ version # TECTO_VERSION

\* the key lookup without its try/catch: the store's KeyError escapes
LookupKeyUncaught(st, h, kid) == getKey(st, h, kid)

\* try { key = this.keyStore.getKey(kid) } catch { throw new InvalidSignatureError() }
LookupKey(st, h, kid) ==
  LET got == getKey(st, h, kid) IN
  IF got.out.ok THEN got ELSE Effect(got.store, got.heap, Throw(InvalidSignatureError))

\* an expiry test that fires only in the second of exp itself
ExpiredOnlyAt(exp, now) == exp = now

\* the expiry test with < for <=
ExpiredStrictly(exp, now) == exp < now

\* payload.exp <= now
Expired(exp, now) == exp <= now

\* payload.nbf > now
NotYetActive(nbf, now) == nbf > now

\* a field that holds a number or a string of digits
IsNumericField(payload, k) ==
  IsObj(payload) /\ HasField(payload[2], k)
  /\ (\/ IsNum(Field(payload[2], k))
      \/ /\ Field(payload[2], k)[1] = "str"
         /\ Field(payload[2], k)[2] # <<>>
         /\ \A i \in 1..Len(Field(payload[2], k)[2]) : Field(payload[2], k)[2][i] \in DigitSet)

\* the number such a field stands for
NumericField(payload, k) ==
  IF IsNum(Field(payload[2], k)) THEN Field(payload[2], k)[2]
  ELSE ParseInt(Field(payload[2], k)[2])

\* time checks without the typeof tests: a string of digits is compared as
\* the number it spells
CheckTimesCoercing(payload, now) ==
  IF payload = Null THEN Throw(TypeError)
  ELSE IF IsNumericField(payload, K_exp) /\ Expired(NumericField(payload, K_exp), now)
  THEN Throw(TokenExpiredError(Date(NumericField(payload, K_exp) * 1000)))
  ELSE IF IsNumericField(payload, K_nbf) /\ NotYetActive(NumericField(payload, K_nbf), now)
  THEN Throw(TokenNotActiveError(Date(NumericField(payload, K_nbf) * 1000)))
  ELSE Return(payload)

\* time checks in the other order: nbf first, then exp
CheckTimesActivationFirst(payload, now) ==
  IF payload = Null THEN Throw(TypeError)
  ELSE IF IsNumberField(payload, K_nbf) /\ NotYetActive(Field(payload[2], K_nbf)[2], now)
  THEN Throw(TokenNotActiveError(Date(Field(payload[2], K_nbf)[2] * 1000)))
  ELSE IF IsNumberField(payload, K_exp) /\ Expired(Field(payload[2], K_exp)[2], now)
  THEN Throw(TokenExpiredError(Date(Field(payload[2], K_exp)[2] * 1000)))
  ELSE Return(payload)

\* time checks that give a token without exp a lifetime of one second
CheckTimesDefaultExpiry(payload, now) ==
  IF payload = Null THEN Throw(TypeError)
  ELSE IF IsNumberField(payload, K_exp) /\ Expired(Field(payload[2], K_exp)[2], now)
  THEN Throw(TokenExpiredError(Date(Field(payload[2], K_exp)[2] * 1000)))
  ELSE IF ~IsNumberField(payload, K_exp) /\ IsNumberField(payload, K_iat)
          /\ Expired(Field(payload[2], K_iat)[2] + 1, now)
  THEN Throw(TokenExpiredError(Date((Field(payload[2], K_iat)[2] + 1) * 1000)))
  ELSE IF IsNumberField(payload, K_nbf) /\ NotYetActive(Field(payload[2], K_nbf)[2], now)
  THEN Throw(TokenNotActiveError(Date(Field(payload[2], K_nbf)[2] * 1000)))
  ELSE Return(payload)

\* the time checks on an authenticated, parsed payload, and the return
CheckTimes(payload, now) ==
  IF payload = Null THEN Throw(TypeError)
  ELSE IF IsNumberField(payload, K_exp) /\ Expired(Field(payload[2], K_exp)[2], now)
  THEN Throw(TokenExpiredError(Date(Field(payload[2], K_exp)[2] * 1000)))
  ELSE IF IsNumberField(payload, K_nbf) /\ NotYetActive(Field(payload[2], K_nbf)[2], now)
  THEN Throw(TokenNotActiveError(Date(Field(payload[2], K_nbf)[2] * 1000)))
  ELSE Return(payload)

\* TectoCoder.decrypt(token) at clock second now
decrypt(st, h, now, token) ==
  LET segments == Split(token) IN
  IF Len(segments) # SEGMENT_COUNT THEN Effect(st, h, Throw(InvalidSignatureError))
  ELSE IF WrongTags(segments[1], segments[2])
  THEN Effect(st, h, Throw(InvalidSignatureError))
  ELSE LET looked == LookupKey(st, h, segments[3])
           key == looked.out
           st1 == looked.store
           h1  == looked.heap
       IN
    IF ~key.ok THEN looked
    ELSE LET nonce      == Base64urlDecode(segments[4])
             ciphertext == Base64urlDecode(segments[5])
         IN
      IF ~nonce.ok \/ ~ciphertext.ok THEN Effect(st1, h1, Throw(InvalidSignatureError))
      ELSE IF Len(nonce.bytes) # NONCE_LENGTH THEN Effect(st1, h1, Throw(InvalidSignatureError))
      ELSE LET opened == AeadOpen(h1[key.value], nonce.bytes, ciphertext.bytes) IN
        IF ~opened.ok THEN Effect(st1, h1, Throw(InvalidSignatureError))
        ELSE LET parsed == JsonParse(TextDecode(opened.pt)) IN
          IF ~parsed.ok THEN Effect(st1, h1, Throw(InvalidSignatureError))
          ELSE Effect(st1, h1, CheckTimes(parsed.value, now))

(* ------------------------------------------------------------------ *)
(* The state machine                                                   *)
(* ------------------------------------------------------------------ *)
VARIABLES
  stores,   \* the MemoryKeyStore instances, by name: [keys, currentKeyId]
  heap,     \* the Uint8Array buffers that are still referenced, by address
  now,      \* Math.floor(Date.now() / 1000)
  issued,   \* the last token encrypt returned, with the call that made it
  res,      \* the last call: its operation, its arguments and its outcome
  drawn,    \* the nonces crypto.getRandomValues has delivered to encrypt
  held,     \* the buffer the caller keeps a reference to, if any
  pending,  \* the encrypt call that has read from the store and not yet sealed
  db        \* the rows of table tecto_keys of the SQLite file, in rowid order

vars == <<stores, heap, now, issued, res, drawn, held, pending, db>>

\* two stores, each with its own TectoCoder
StoreIds == {"A", "B"}

\* the last second the clock reaches
MaxTime == 3

\* the addresses a state refers to: the buffers of every store, the
\* reference a getKey call handed to its caller, the buffer the caller keeps
\* and the key an encrypt call in progress has fetched
Roots(ss, r, hd, pd) ==
  UNION {{ss[s].keys[k] : k \in DOMAIN ss[s].keys} : s \in DOMAIN ss}
  \cup (IF r.op = "getKey" /\ r.out.ok THEN {r.out.value} ELSE {})
  \cup (IF IsSome(hd) THEN {hd[1].addr} ELSE {})
  \cup (IF IsSome(pd) /\ IsSome(pd[1].key) THEN {pd[1].key[1]} ELSE {})

\* garbage collection: a buffer nothing refers to is gone
Collect(h, ss, r, hd, pd) == Map([a \in DOMAIN h \cap Roots(ss, r, hd, pd) |-> h[a]])

\* the bytes a store holds under a key id
Secret(s, id) == heap[stores[s].keys[id]]

HasKey(s, id) == id \in DOMAIN stores[s].keys

Init ==
  /\ stores = [s \in StoreIds |-> NewStore]
  /\ heap = EmptyMap
  /\ now = 0
  /\ issued = None
  /\ res = [op |-> "new"]
  /\ drawn = {}
  /\ held = None
  /\ pending = None
  /\ db = <<>>

AddKey(s, id, secret) ==
  \E e \in {addKey(stores[s], heap, id, secret)} :
  /\ stores' = [stores EXCEPT ![s] = e.store]
  /\ res' = [op |-> "addKey", s |-> s, id |-> id, secret |-> secret, out |-> e.out]
  /\ heap' = Collect(e.heap, stores', res', held, pending)
  /\ UNCHANGED <<now, issued, drawn, held, pending, db>>

GetKey(s, id) ==
  \E e \in {getKey(stores[s], heap, id)} :
  /\ stores' = [stores EXCEPT ![s] = e.store]
  /\ res' = [op |-> "getKey", s |-> s, id |-> id, out |-> e.out]
  /\ heap' = Collect(e.heap, stores', res', held, pending)
  /\ UNCHANGED <<now, issued, drawn, held, pending, db>>

Rotate(s, newId, newSecret) ==
  \E e \in {rotate(stores[s], heap, newId, newSecret)} :
  /\ stores' = [stores EXCEPT ![s] = e.store]
  /\ res' = [op |-> "rotate", s |-> s, id |-> newId, secret |-> newSecret, out |-> e.out]
  /\ heap' = Collect(e.heap, stores', res', held, pending)
  /\ UNCHANGED <<now, issued, drawn, held, pending, db>>

RemoveKey(s, id) ==
  \E e \in {removeKey(stores[s], heap, id)} :
  /\ stores' = [stores EXCEPT ![s] = e.store]
  /\ res' = [op |-> "removeKey", s |-> s, id |-> id, out |-> e.out]
  /\ heap' = Collect(e.heap, stores', res', held, pending)
  /\ UNCHANGED <<now, issued, drawn, held, pending, db>>

GetCurrentKeyId(s) ==
  \E e \in {getCurrentKeyId(stores[s], heap)} :
  /\ stores' = [stores EXCEPT ![s] = e.store]
  /\ res' = [op |-> "getCurrentKeyId", s |-> s, out |-> e.out]
  /\ heap' = Collect(e.heap, stores', res', held, pending)
  /\ UNCHANGED <<now, issued, drawn, held, pending, db>>

Encrypt(s, payload, options, randomJti, randomNonce) ==
  \E e \in {encrypt(stores[s], heap, now, payload, options, randomJti, randomNonce)} :
  /\ stores' = [stores EXCEPT ![s] = e.store]
  /\ res' = [op |-> "encrypt", s |-> s, payload |-> payload, options |-> options,
             at |-> now, out |-> e.out]
  /\ heap' = Collect(e.heap, stores', res', held, pending)
  /\ issued' = IF e.out.ok
               THEN Some([token |-> e.out.value, s |-> s, payload |-> payload,
                          options |-> options, iat |-> now,
                          kid |-> stores[s].currentKeyId[1],
                          key |-> Secret(s, stores[s].currentKeyId[1])])
               ELSE issued
  /\ drawn' = IF e.out.ok THEN drawn \cup {randomNonce} ELSE drawn
  /\ UNCHANGED <<now, held, pending, db>>

Decrypt(s, token) ==
  \E e \in {decrypt(stores[s], heap, now, token)} :
  /\ stores' = [stores EXCEPT ![s] = e.store]
  /\ res' = [op |-> "decrypt", s |-> s, token |-> token, at |-> now, out |-> e.out]
  /\ heap' = Collect(e.heap, stores', res', held, pending)
  /\ UNCHANGED <<now, issued, drawn, held, pending, db>>

\* constantTimeCompare(a, b) called on its own
ConstantTimeCompare(a, b) ==
  /\ \E e \in {constantTimeCompare(a, b)} :
       res' = [op |-> "constantTimeCompare", a |-> a, b |-> b, out |-> Return(e.value),
               steps |-> e.steps]
  /\ UNCHANGED <<stores, heap, now, issued, drawn, held, pending, db>>

\* assertEntropy(key) called on its own
AssertEntropy(key) ==
  /\ res' = [op |-> "assertEntropy", key |-> key, out |-> assertEntropy(key)]
  /\ UNCHANGED <<stores, heap, now, issued, drawn, held, pending, db>>

\* the caller makes a buffer of its own: const key = new Uint8Array(bytes)
NewBuffer(bytes) ==
  /\ held' = Some([addr |-> Alloc(heap), own |-> TRUE, s |-> "", id |-> <<>>])
  /\ heap' = Collect(MapSet(heap, Alloc(heap), bytes), stores, res, held', pending)
  /\ UNCHANGED <<stores, now, issued, res, drawn, pending, db>>

\* store.addKey(id, key) with the buffer the caller made
AddKeyOf(s, id) ==
  /\ IsSome(held)
  /\ held[1].own
  /\ \E e \in {addKeyOf(stores[s], heap, id, held[1].addr)} :
       /\ stores' = [stores EXCEPT ![s] = e.store]
       /\ res' = [op |-> "addKey", s |-> s, id |-> id, secret |-> heap[held[1].addr],
                  buffer |-> held[1].addr, out |-> e.out]
       /\ heap' = Collect(e.heap, stores', res', held, pending)
  /\ UNCHANGED <<now, issued, drawn, held, pending, db>>

\* the caller writes into its own buffer: key.fill(0), key.set(bytes)
WriteBuffer(bytes) ==
  /\ IsSome(held)
  /\ held[1].own
  /\ Len(bytes) = Len(heap[held[1].addr])
  /\ heap' = [heap EXCEPT ![held[1].addr] = bytes]
  /\ UNCHANGED <<stores, now, issued, res, drawn, held, pending, db>>

\* the caller keeps the reference the last getKey returned:
\* const retrieved = store.getKey(id)
Hold ==
  /\ res.op = "getKey"
  /\ res.out.ok
  /\ held' = Some([addr |-> res.out.value, own |-> FALSE, s |-> res.s, id |-> res.id])
  /\ UNCHANGED <<stores, heap, now, issued, res, drawn, pending, db>>

\* encrypt, first statement: const kid = this.keyStore.getCurrentKeyId()
EncryptGetCurrentKeyId(s, payload, options) ==
  /\ pending = None
  /\ \E e \in {getCurrentKeyId(stores[s], heap)} :
       IF e.out.ok
       THEN /\ pending' = Some([s |-> s, payload |-> payload, options |-> options,
                                kid |-> e.out.value, key |-> None, read |-> None])
            /\ UNCHANGED res
       ELSE /\ res' = [op |-> "encrypt", s |-> s, payload |-> payload, options |-> options,
                       at |-> now, out |-> e.out]
            /\ UNCHANGED pending
  /\ UNCHANGED <<stores, heap, now, issued, drawn, held, db>>

\* encrypt, second statement: const key = this.keyStore.getKey(kid); the
\* call keeps the reference, and read notes the bytes it pointed to then
EncryptGetKey ==
  /\ IsSome(pending)
  /\ pending[1].key = None
  /\ \E e \in {getKey(stores[pending[1].s], heap, pending[1].kid)} :
       IF e.out.ok
       THEN /\ pending' = Some([pending[1] EXCEPT !.key = Some(e.out.value),
                                                  !.read = Some(heap[e.out.value])])
            /\ UNCHANGED res
       ELSE /\ res' = [op |-> "encrypt", s |-> pending[1].s, payload |-> pending[1].payload,
                       options |-> pending[1].options, at |-> now, out |-> e.out]
            /\ pending' = None
  /\ UNCHANGED <<stores, heap, now, issued, drawn, held, db>>

\* encrypt, from the clock read to the return: the claims, the nonce and the
\* cipher made of the bytes the kept reference points to now
EncryptSeal(randomJti, randomNonce) ==
  /\ IsSome(pending)
  /\ IsSome(pending[1].key)
  /\ \E e \in {encrypt([keys |-> Map([k \in {pending[1].kid} |-> pending[1].key[1]]),
                         currentKeyId |-> Some(pending[1].kid)],
                        heap, now, pending[1].payload, pending[1].options,
                        randomJti, randomNonce)} :
       /\ res' = [op |-> "encrypt", s |-> pending[1].s, payload |-> pending[1].payload,
                  options |-> pending[1].options, at |-> now, out |-> e.out,
                  kid |-> pending[1].kid, read |-> pending[1].read[1]]
       /\ issued' = IF e.out.ok
                    THEN Some([token |-> e.out.value, s |-> pending[1].s,
                               payload |-> pending[1].payload,
                               options |-> pending[1].options, iat |-> now,
                               kid |-> pending[1].kid, key |-> heap[pending[1].key[1]]])
                    ELSE issued
       /\ drawn' = IF e.out.ok THEN drawn \cup {randomNonce} ELSE drawn
  /\ pending' = None
  /\ heap' = Collect(heap, stores, res', held, pending')
  /\ UNCHANGED <<stores, now, held, db>>

\* store.addKey(id, secret) on the live SqliteKeyStore, whose in-memory
\* store is store "A"
SqliteAddKey(id, secret) ==
  \E e \in {sqliteAddKey(stores["A"], heap, db, id, secret, now)} :
  /\ stores' = [stores EXCEPT !["A"] = e.store]
  /\ db' = e.db
  /\ res' = [op |-> "sqlite.addKey", s |-> "A", id |-> id, secret |-> secret, out |-> e.out]
  /\ heap' = Collect(e.heap, stores', res', held, pending)
  /\ UNCHANGED <<now, issued, drawn, held, pending>>

SqliteRotate(newId, newSecret) ==
  \E e \in {sqliteRotate(stores["A"], heap, db, newId, newSecret, now)} :
  /\ stores' = [stores EXCEPT !["A"] = e.store]
  /\ db' = e.db
  /\ res' = [op |-> "sqlite.rotate", s |-> "A", id |-> newId, secret |-> newSecret,
             out |-> e.out]
  /\ heap' = Collect(e.heap, stores', res', held, pending)
  /\ UNCHANGED <<now, issued, drawn, held, pending>>

SqliteRemoveKey(id) ==
  \E e \in {sqliteRemoveKey(stores["A"], heap, db, id)} :
  /\ stores' = [stores EXCEPT !["A"] = e.store]
  /\ db' = e.db
  /\ res' = [op |-> "sqlite.removeKey", s |-> "A", id |-> id, out |-> e.out]
  /\ heap' = Collect(e.heap, stores', res', held, pending)
  /\ UNCHANGED <<now, issued, drawn, held, pending>>

\* const fresh = new SqliteKeyStore(DB_PATH): store "B" becomes the in-memory
\* store of an instance opened on the same file
NewSqliteKeyStore ==
  \E order \in RowOrders(db) :
  \E e \in {loadFromDb(db, order, heap)} :
  /\ stores' = [stores EXCEPT !["B"] = e.store]
  /\ res' = [op |-> "sqlite.new", s |-> "B", out |-> e.out]
  /\ heap' = Collect(e.heap, stores', res', held, pending)
  /\ UNCHANGED <<now, issued, drawn, held, pending, db>>

\* a second passes
Tick ==
  /\ now < MaxTime
  /\ now' = now + 1
  /\ UNCHANGED <<stores, heap, issued, res, drawn, held, pending, db>>

(* ------------------------------------------------------------------ *)
(* The inputs the specifications draw                                  *)
(* ------------------------------------------------------------------ *)
K1 == <<"k", "1">>

K2 == <<"k", "2">>

KeyIds == {K1, K2}

\* two keys generateSecureKey could return
SecretA == Tuple([i \in 1..32 |-> (37 * i + 11) % 256])

SecretB == Tuple([i \in 1..32 |-> (91 * i + 5) % 256])

GoodSecrets == {SecretA, SecretB}

\* keys assertEntropy rejects: all zero, one repeated byte, seven distinct
\* bytes, 31 bytes
ZeroSecret == Tuple([i \in 1..32 |-> 0])

RepeatingSecret == Tuple([i \in 1..32 |-> 170])

LowEntropySecret == Tuple([i \in 1..32 |-> i % 7])

ShortSecret == Tuple([i \in 1..31 |-> (37 * i + 11) % 256])

WeakSecrets == {ZeroSecret, RepeatingSecret, LowEntropySecret, ShortSecret}

\* what crypto.getRandomValues delivers for the jti and for the nonce
RandomJti == Tuple([i \in 1..16 |-> (29 * i + 3) % 256])

RandomNonce == Tuple([i \in 1..24 |-> (53 * i + 7) % 256])

RandomNonce2 == Tuple([i \in 1..24 |-> (17 * i + 101) % 256])

K_role == <<"r", "o", "l", "e">>

\* caller claim sets: none, a custom field, a field named like a registered one
NoClaims == <<>>

RoleClaims == << <<K_role, Str(<<"a", "d", "m", "i", "n">>)>> >>

Seconds(n) == Some(<<Digits[n + 1], "s">>)

JtiJ == Some(<<"j">>)

(* ------------------------------------------------------------------ *)
(* SpecReject: decrypt of strings a caller may hand in, over the life  *)
(* of a store                                                          *)
(* ------------------------------------------------------------------ *)
K3 == <<"k", "3">>

\* the token a holder of key seals over a plaintext, as encrypt frames it
Sealed(kid, key, nonce, text) ==
  Frame(kid, Base64urlEncode(nonce), Base64urlEncode(AeadSeal(key, nonce, TextEncode(text))))

\* {"exp":2,"nbf":1}
LiveText == Stringify(Obj(<< <<K_exp, Num(2)>>, <<K_nbf, Num(1)>> >>))

T_Live == Sealed(K1, SecretA, RandomNonce, LiveText)

T_Empty == <<>>

T_Three == TECTO_PREFIX \o <<".">> \o TECTO_VERSION \o <<".">> \o K1

T_Six == T_Live \o <<".", "x">>

T_Prefix == <<"T">> \o Tail(T_Live)

T_Version == [T_Live EXCEPT ![Len(TECTO_PREFIX) + 3] = "2"]

T_Unknown == Sealed(K3, SecretA, RandomNonce, LiveText)

T_Null == Sealed(K1, SecretA, RandomNonce, Stringify(Null))

T_NotJson == Sealed(K1, SecretA, RandomNonce, <<"x">>)

T_ShortNonce ==
  Frame(K1, Base64urlEncode(Tail(RandomNonce)),
        Base64urlEncode(AeadSeal(SecretA, RandomNonce, TextEncode(LiveText))))

T_BadBase64 == [T_Live EXCEPT ![Len(T_Live)] = "!"]

T_WrongKey == Sealed(K1, SecretB, RandomNonce, LiveText)

T_ShortCiphertext == Frame(K1, Base64urlEncode(RandomNonce), Base64urlEncode(<<1, 2, 3>>))

T_K2 == Sealed(K2, SecretB, RandomNonce2, LiveText)

RejectTokens ==
  {T_Live, T_Empty, T_Three, T_Six, T_Prefix, T_Version, T_Unknown, T_Null, T_NotJson,
   T_ShortNonce, T_BadBase64, T_WrongKey, T_ShortCiphertext, T_K2}

\* decrypt changes nothing but res, so a decrypt that follows a decrypt
\* reaches no state the same decrypt does not reach from the state before:
\* the specifications take decrypt steps from the other states only
NextReject ==
  \/ AddKey("A", K1, SecretA)
  \/ Rotate("A", K2, SecretB)
  \/ RemoveKey("A", K1)
  \/ res.op # "decrypt" /\ \E token \in RejectTokens : Decrypt("A", token)
  \/ Tick

SpecReject == Init /\ [][NextReject]_vars

\* the point the time checks lie behind: the kid resolved to a stored key,
\* the nonce decoded to 24 bytes, AEAD open under that key succeeded and the
\* plaintext parsed as JSON
Authenticated(st, h, token) ==
  LET seg == Split(token) IN
  /\ Len(seg) = SEGMENT_COUNT
  /\ seg[1] = TECTO_PREFIX
  /\ seg[2] = TECTO_VERSION
  /\ seg[3] \in DOMAIN st.keys
  /\ LET nonce == Base64urlDecode(seg[4])
         ct    == Base64urlDecode(seg[5])
     IN /\ nonce.ok
        /\ ct.ok
        /\ Len(nonce.bytes) = NONCE_LENGTH
        /\ LET opened == AeadOpen(h[st.keys[seg[3]]], nonce.bytes, ct.bytes) IN
           opened.ok /\ JsonParse(TextDecode(opened.pt)).ok

\* C1: decrypt fails with TokenExpired or TokenNotActive only on a token
\* whose kid resolved, whose nonce decoded to 24 bytes, which opened under
\* that key and whose plaintext parsed as JSON; on every other input it
\* fails, and with the one InvalidSignatureError, the same in kind, code and
\* message whatever the cause.
C1_OpaqueBeforeAuthentication ==
  res.op = "decrypt" =>
    LET auth == Authenticated(stores[res.s], heap, res.token) IN
    /\ (TokenExpired(res.out) \/ TokenNotActive(res.out)) => auth
    /\ ~auth => res.out = Throw(InvalidSignatureError)

\* a token that passes every check up to AEAD open and fails there
C1_Witness ==
  /\ res.op = "decrypt"
  /\ res.token = T_WrongKey
  /\ HasKey("A", K1)
  /\ InvalidToken(res.out)

\* C8: decrypt of the empty string, of a string that does not split on "."
\* into exactly 5 segments, of a string whose first segment is not tecto or
\* whose second is not v1, and of a token whose kid is not in the store
\* fails with InvalidToken.
C8_StructuralRejection ==
  res.op = "decrypt" =>
    LET seg == Split(res.token) IN
    (\/ res.token = <<>>
     \/ Len(seg) # 5
     \/ seg[1] # <<"t", "e", "c", "t", "o">>
     \/ seg[2] # <<"v", "1">>
     \/ ~HasKey(res.s, seg[3]))
    => InvalidToken(res.out)

\* a token that is well formed and live but for its first segment
C8_Witness ==
  /\ res.op = "decrypt"
  /\ res.token = T_Prefix
  /\ HasKey("A", K1)
  /\ now = 1
  /\ InvalidToken(res.out)

(* ------------------------------------------------------------------ *)
(* SpecTime: tokens of one key, sealed and opened as the clock runs    *)
(* ------------------------------------------------------------------ *)
Admin == Str(<<"a", "d", "m", "i", "n">>)

\* claim sets whose fields are named like registered ones
CallerIat == << <<K_iat, Num(7)>>, <<K_role, Admin>> >>

CallerExp == << <<K_exp, Num(1)>>, <<K_role, Admin>> >>

\* nested values: null, an array, an object
RichClaims ==
  << <<<<"n">>, Null>>,
     <<<<"l">>, Arr(<<Num(1), <<"bool", TRUE>>, Str(<<"x", " ", "y">>)>>)>>,
     <<<<"o">>, Obj(<< <<<<"p">>, Num(-2)>> >>)>> >>

O_Exp2 == [NoOptions EXCEPT !.expiresIn = Seconds(2), !.jti = JtiJ]

O_Window == [NoOptions EXCEPT !.expiresIn = Seconds(3), !.notBefore = Seconds(1)]

\* exp before nbf: no second at which the token is valid
O_Closed == [NoOptions EXCEPT !.expiresIn = Seconds(1), !.notBefore = Seconds(2)]

O_IssAud == [NoOptions EXCEPT !.issuer = Some(<<"m", "e">>), !.audience = Some(<<"y", "o", "u">>)]

O_Zero == [NoOptions EXCEPT !.expiresIn = Seconds(0)]

O_EmptyIssuer == [NoOptions EXCEPT !.issuer = Some(<<>>)]

\* the encrypt calls of the specification: <<payload, options>>
TimeCalls ==
  {<<RoleClaims, NoOptions>>, <<RoleClaims, O_Exp2>>, <<NoClaims, O_Window>>,
   <<NoClaims, O_Closed>>, <<RichClaims, O_IssAud>>, <<CallerIat, NoOptions>>,
   <<CallerExp, NoOptions>>, <<CallerExp, O_Exp2>>, <<NoClaims, O_Zero>>,
   <<NoClaims, O_EmptyIssuer>>}

NextTime ==
  \/ AddKey("A", K1, SecretA)
  \/ \E call \in TimeCalls : Encrypt("A", call[1], call[2], RandomJti, RandomNonce)
  \/ issued # None /\ Decrypt("A", issued[1].token)
  \/ Tick

SpecTime == Init /\ [][NextTime]_vars

\* the last call was decrypt of the issued token, on the store that sealed it
\* and still holds its key
DecryptedIssued ==
  /\ issued # None
  /\ res.op = "decrypt"
  /\ res.token = issued[1].token
  /\ res.s = issued[1].s
  /\ HasKey(res.s, issued[1].kid)
  /\ Secret(res.s, issued[1].kid) = issued[1].key

\* the names of the fields encrypt writes for these options
Written(options) ==
  {K_iat, K_jti}
  \cup (IF Truthy(options.expiresIn) THEN {K_exp} ELSE {})
  \cup (IF Truthy(options.notBefore) THEN {K_nbf} ELSE {})
  \cup (IF Truthy(options.issuer) THEN {K_iss} ELSE {})
  \cup (IF Truthy(options.audience) THEN {K_aud} ELSE {})

\* the registered fields of a decrypted claim set are those the call asked for
RegisteredAsRequested(c, i) ==
  /\ HasField(c, K_iat) /\ Field(c, K_iat) = Num(i.iat)
  /\ HasField(c, K_jti)
  /\ Field(c, K_jti) = Str(IF IsSome(i.options.jti) THEN i.options.jti[1]
                           ELSE generateJti(RandomJti))
  /\ Truthy(i.options.expiresIn) =>
       HasField(c, K_exp)
       /\ Field(c, K_exp) = Num(i.iat + parseDuration(i.options.expiresIn[1]).value)
  /\ Truthy(i.options.notBefore) =>
       HasField(c, K_nbf)
       /\ Field(c, K_nbf) = Num(i.iat + parseDuration(i.options.notBefore[1]).value)
  /\ Truthy(i.options.issuer) =>
       HasField(c, K_iss) /\ Field(c, K_iss) = Str(i.options.issuer[1])
  /\ Truthy(i.options.audience) =>
       HasField(c, K_aud) /\ Field(c, K_aud) = Str(i.options.audience[1])

\* the fields of the payload named in keep come back with the payload's values
Kept(c, payload, keep) ==
  \A n \in 1..Len(payload) :
    payload[n][1] \in keep => HasField(c, payload[n][1]) /\ Field(c, payload[n][1]) = payload[n][2]

FieldNames(payload) == {payload[n][1] : n \in 1..Len(payload)}

SealedClaims(i) ==
  LET seg == Split(i.token) IN
  JsonParse(TextDecode(AeadOpen(i.key, Base64urlDecode(seg[4]).bytes,
                                Base64urlDecode(seg[5]).bytes).pt)).value[2]

HasNum(c, k) == HasField(c, k) /\ IsNum(Field(c, k))

\* the token carries an exp that is not after second t
ExpReached(c, t) == HasNum(c, K_exp) /\ Field(c, K_exp)[2] <= t

\* C9 as claimed: an authentic token whose exp lies in the past fails with
\* TokenExpired, one whose nbf lies in the future fails with TokenNotActive,
\* one with nbf in the past and exp in the future decrypts.
C9_ExpiryOrderingAsClaimed ==
  DecryptedIssued =>
    LET c == SealedClaims(issued[1]) IN
    /\ (HasNum(c, K_exp) /\ Field(c, K_exp)[2] < res.at) => TokenExpired(res.out)
    /\ (HasNum(c, K_nbf) /\ Field(c, K_nbf)[2] > res.at) => TokenNotActive(res.out)
    /\ (HasNum(c, K_nbf) /\ Field(c, K_nbf)[2] < res.at
        /\ HasNum(c, K_exp) /\ Field(c, K_exp)[2] > res.at) => res.out = Return(Obj(c))

\* C9, amended: an authentic token whose exp lies in the past fails with
\* TokenExpired; one whose nbf lies in the future fails with TokenNotActive
\* unless its exp is at or before the clock, in which case TokenExpired
\* wins; one with nbf in the past and exp in the future decrypts to its
\* claims.
C9_ExpiryOrdering ==
  DecryptedIssued =>
    LET c == SealedClaims(issued[1]) IN
    /\ (HasNum(c, K_exp) /\ Field(c, K_exp)[2] < res.at) => TokenExpired(res.out)
    /\ (HasNum(c, K_nbf) /\ Field(c, K_nbf)[2] > res.at) =>
         IF ExpReached(c, res.at) THEN TokenExpired(res.out) ELSE TokenNotActive(res.out)
    /\ (HasNum(c, K_nbf) /\ Field(c, K_nbf)[2] < res.at
        /\ HasNum(c, K_exp) /\ Field(c, K_exp)[2] > res.at) => res.out = Return(Obj(c))

\* nbf one second back, exp one second ahead: the token decrypts
C9_Witness ==
  /\ DecryptedIssued
  /\ issued[1].options = O_Window
  /\ res.at = issued[1].iat + 2
  /\ res.out.ok

\* C10 as claimed: at now = exp the token is rejected with TokenExpired
\* carrying exp, at now = nbf it is accepted, and a token sealed with
\* expiresIn of n seconds is accepted only at iat <= t < iat + n.
C10_BoundariesAsClaimed ==
  DecryptedIssued =>
    LET c == SealedClaims(issued[1])
        i == issued[1]
    IN
    /\ (HasNum(c, K_exp) /\ Field(c, K_exp)[2] = res.at) =>
         /\ TokenExpired(res.out)
         /\ res.out.error.expiredAt = Date(Field(c, K_exp)[2] * 1000)
    /\ (HasNum(c, K_nbf) /\ Field(c, K_nbf)[2] = res.at) => res.out.ok
    /\ (Truthy(i.options.expiresIn) /\ res.out.ok) =>
         /\ i.iat <= res.at
         /\ res.at < i.iat + parseDuration(i.options.expiresIn[1]).value

\* C10, amended: at now = exp the token is rejected with TokenExpired
\* carrying exp; at now = nbf it is accepted unless its exp is at or before
\* the clock; a token sealed with expiresIn of n seconds is accepted only at
\* iat <= t < iat + n, and, when it carries no nbf, at every such t.
C10_Boundaries ==
  DecryptedIssued =>
    LET c == SealedClaims(issued[1])
        i == issued[1]
    IN
    /\ (HasNum(c, K_exp) /\ Field(c, K_exp)[2] = res.at) =>
         /\ TokenExpired(res.out)
         /\ res.out.error.expiredAt = Date(Field(c, K_exp)[2] * 1000)
    /\ (HasNum(c, K_nbf) /\ Field(c, K_nbf)[2] = res.at /\ ~ExpReached(c, res.at)) => res.out.ok
    /\ (Truthy(i.options.expiresIn) /\ res.out.ok) =>
         /\ i.iat <= res.at
         /\ res.at < i.iat + parseDuration(i.options.expiresIn[1]).value
    /\ (Truthy(i.options.expiresIn) /\ ~HasField(c, K_nbf)
        /\ res.at < i.iat + parseDuration(i.options.expiresIn[1]).value) => res.out.ok

\* the second the token's exp names: rejected, with exp as the timestamp
C10_Witness ==
  /\ DecryptedIssued
  /\ issued[1].options = O_Exp2
  /\ res.at = issued[1].iat + 2
  /\ TokenExpired(res.out)
  /\ res.out.error.expiredAt = Date(res.at * 1000)

(* ------------------------------------------------------------------ *)
(* SpecTamper: an issued token with one character replaced             *)
(* ------------------------------------------------------------------ *)
\* replacement characters: base64url letters, the separator, the padding
\* character and a character outside the alphabet
TamperChars == {"A", "g", "5", "_", ".", "=", "!"}

\* the positions of the nonce and ciphertext segments of a token
BodyPositions(token) ==
  LET dots == {p \in 1..Len(token) : token[p] = "."}
      kidEnd == CHOOSE p \in dots : Cardinality({q \in dots : q < p}) = 2
  IN {p \in (kidEnd + 1)..Len(token) : token[p] # "."}

\* the token with one character of its nonce or ciphertext segment replaced
Tampered(token) ==
  {[token EXCEPT ![p] = ch] : p \in BodyPositions(token), ch \in TamperChars} \ {token}

NextTamper ==
  \/ AddKey("A", K1, SecretA)
  \/ Encrypt("A", NoClaims, O_Exp2, RandomJti, RandomNonce)
  \/ /\ issued # None
     /\ res.op # "decrypt"
     /\ \E token \in Tampered(issued[1].token) \cup {issued[1].token} : Decrypt("A", token)
  \/ Tick

SpecTamper == Init /\ [][NextTamper]_vars

\* t differs from token in exactly one character, of the nonce or the
\* ciphertext segment
SingleReplacement(t, token) ==
  /\ Len(t) = Len(token)
  /\ \E p \in BodyPositions(token) :
       t[p] # token[p] /\ \A q \in 1..Len(token) : q # p => t[q] = token[q]

\* C6: for a token encrypt returned, replacing one character of its nonce
\* segment or of its ciphertext segment by a different character makes
\* decrypt fail with InvalidToken.
C6_TamperSensitivity ==
  (issued # None /\ res.op = "decrypt" /\ SingleReplacement(res.token, issued[1].token))
  => InvalidToken(res.out)

\* the first character of the nonce segment replaced, the key in the store
\* and the token itself still inside its validity window
C6_Witness ==
  /\ issued # None
  /\ res.op = "decrypt"
  /\ SingleReplacement(res.token, issued[1].token)
  /\ LET p == Min(BodyPositions(issued[1].token)) IN res.token[p] # issued[1].token[p]
  /\ HasKey("A", issued[1].kid)
  /\ res.at = issued[1].iat
  /\ InvalidToken(res.out)

(* ------------------------------------------------------------------ *)
(* SpecIso: two stores, each with its own coder                        *)
(* ------------------------------------------------------------------ *)
NextIso ==
  \/ AddKey("A", K1, SecretA)
  \/ \E secret \in GoodSecrets : AddKey("B", K1, secret)
  \/ \E s \in StoreIds : Encrypt(s, RoleClaims, NoOptions, RandomJti, RandomNonce)
  \/ \E s \in StoreIds : issued # None /\ Decrypt(s, issued[1].token)

SpecIso == Init /\ [][NextIso]_vars

\* the last call was decrypt of the issued token by the coder of another
\* store than the one that sealed it
DecryptedElsewhere ==
  /\ issued # None
  /\ res.op = "decrypt"
  /\ res.token = issued[1].token
  /\ res.s # issued[1].s

\* C7: a token sealed under one store's current key fails with InvalidToken
\* when decrypted by a coder whose store holds a different secret under the
\* same key id, and when that store has no key with that id.
C7_CrossKeyIsolation ==
  (DecryptedElsewhere
   /\ (HasKey(res.s, issued[1].kid) => Secret(res.s, issued[1].kid) # issued[1].key))
  => InvalidToken(res.out)

\* the other store holds a different secret under the token's kid
C7_Witness ==
  /\ DecryptedElsewhere
  /\ HasKey(res.s, issued[1].kid)
  /\ Secret(res.s, issued[1].kid) # issued[1].key
  /\ InvalidToken(res.out)

(* ------------------------------------------------------------------ *)
(* SpecRotate: tokens of a store across its rotations                  *)
(* ------------------------------------------------------------------ *)
RotateStep == \E id \in KeyIds, secret \in GoodSecrets : Rotate("A", id, secret)

EncryptStep == Encrypt("A", RoleClaims, O_Exp2, RandomJti, RandomNonce)

NextRotate ==
  \/ AddKey("A", K1, SecretA)
  \/ RotateStep
  \/ EncryptStep
  \/ issued # None /\ Decrypt("A", issued[1].token)

SpecRotate == Init /\ [][NextRotate]_vars

\* C3: across every rotate the store accepts, the issued token, if it
\* decrypted before the rotate, decrypts to the same claims after it (the
\* clock unchanged), and the store's current key id is the new id, which is
\* the kid of every token encrypt then returns.
C3_RotationAdditive ==
  [][/\ (RotateStep /\ res'.out.ok) =>
          /\ stores'["A"].currentKeyId = Some(res'.id)
          /\ issued # None =>
               LET before == decrypt(stores["A"], heap, now, issued[1].token).out IN
               before.ok => decrypt(stores'["A"], heap', now', issued[1].token).out = before
     /\ (EncryptStep /\ res'.out.ok) =>
          Split(res'.out.value)[3] = stores["A"].currentKeyId[1]
    ]_vars

(* ------------------------------------------------------------------ *)
(* SpecStore: the key store alone, with every kind of secret           *)
(* ------------------------------------------------------------------ *)
StoreKeyIds == {K1, K2, K3}

StoreSecrets == GoodSecrets \cup WeakSecrets

NextStore ==
  \/ \E id \in StoreKeyIds, secret \in StoreSecrets : AddKey("A", id, secret)
  \/ \E id \in StoreKeyIds, secret \in StoreSecrets : Rotate("A", id, secret)
  \/ \E id \in StoreKeyIds : RemoveKey("A", id)
  \/ \E id \in StoreKeyIds : GetKey("A", id)
  \/ GetCurrentKeyId("A")

SpecStore == Init /\ [][NextStore]_vars

\* the secrets a store holds, by key id
SecretsOf(ss, h, s) == [k \in DOMAIN ss[s].keys |-> h[ss[s].keys[k]]]

\* the key set, the secrets and the current id of the store are untouched
StoreUntouched ==
  /\ stores'["A"] = stores["A"]
  /\ SecretsOf(stores', heap', "A") = SecretsOf(stores, heap, "A")

RemoveStep == \E id \in StoreKeyIds : RemoveKey("A", id)

GetStep == \E id \in StoreKeyIds : GetKey("A", id)

\* C4: removeKey(id) fails with KeyNotFound when id is absent and with
\* KeyInUse when id is the current key, both times leaving the key set, the
\* secrets and the current id as they were; when id is present and not
\* current (the store was rotated away from it) removeKey(id) succeeds and
\* takes id out of the store; getKey of an absent id fails with KeyNotFound,
\* and an absent id stays absent until addKey or rotate stores it again.
C4_RevocationGuard ==
  [][/\ RemoveStep =>
          IF ~HasKey("A", res'.id)
          THEN KeyNotFound(res'.out) /\ StoreUntouched
          ELSE IF stores["A"].currentKeyId = Some(res'.id)
          THEN KeyInUse(res'.out) /\ StoreUntouched
          ELSE /\ res'.out.ok
               /\ DOMAIN stores'["A"].keys = DOMAIN stores["A"].keys \ {res'.id}
               /\ stores'["A"].currentKeyId = stores["A"].currentKeyId
     /\ (GetStep /\ ~HasKey("A", res'.id)) => KeyNotFound(res'.out)
     /\ \A id \in StoreKeyIds :
          (~HasKey("A", id) /\ id \in DOMAIN stores'["A"].keys) =>
            res'.op \in {"addKey", "rotate"} /\ res'.id = id /\ res'.out.ok
    ]_vars

\* removeKey of a key the store was rotated away from: it succeeded, the key
\* is gone and another key is current
C4_Witness ==
  /\ res.op = "removeKey"
  /\ res.out.ok
  /\ ~HasKey("A", res.id)
  /\ stores["A"].currentKeyId # None
  /\ HasKey("A", stores["A"].currentKeyId[1])

\* C5: in every state reachable by addKey, rotate and removeKey calls,
\* successful or failing, the current key id is unset or is the id of a key
\* present in the store.
C5_CurrentKeyPresent ==
  \A s \in StoreIds :
    stores[s].currentKeyId = None \/ HasKey(s, stores[s].currentKeyId[1])

\* a rotate that the entropy check refused, on a store that has a current key
C5_Witness ==
  /\ res.op = "rotate"
  /\ KeyInvalid(res.out)
  /\ stores["A"].currentKeyId # None
  /\ HasKey("A", stores["A"].currentKeyId[1])
  /\ res.id # stores["A"].currentKeyId[1]

(* ------------------------------------------------------------------ *)
(* SpecNonce: encrypt called again and again with the same arguments   *)
(* ------------------------------------------------------------------ *)
\* the random generator is taken as ideal, as the cipher is: it never
\* delivers the same 24 bytes twice; NoncePool holds what it may deliver
NoncePool == {Tuple([i \in 1..24 |-> (k * i + 7) % 256]) : k \in {53, 17, 29, 101}}

\* one store, one payload, one option set with the jti given by the caller:
\* two calls in the same second differ in nothing but the nonce
NextNonce ==
  \/ AddKey("A", K1, SecretA)
  \/ Rotate("A", K2, SecretB)
  \/ \E n \in NoncePool \ drawn : Encrypt("A", RoleClaims, O_Exp2, RandomJti, n)
  \/ Tick

SpecNonce == Init /\ [][NextNonce]_vars

\* the nonce a token carries in its fourth segment
NonceOf(token) == Base64urlDecode(Split(token)[4]).bytes

\* an encrypt call has just returned a token
Minted == res'.op = "encrypt" /\ res'.out.ok /\ (res' # res \/ drawn' # drawn)

\* C11: two encrypt calls on one coder never return the same token, even with
\* the same payload, options, jti and clock second: every token carries a
\* nonce the generator has just delivered, one that no earlier token carries,
\* and it differs from the token returned before it.
C11_NonceUniqueness ==
  [][Minted =>
       /\ NonceOf(res'.out.value) \notin drawn
       /\ drawn' = drawn \cup {NonceOf(res'.out.value)}
       /\ (IsSome(issued) => res'.out.value # issued[1].token)
    ]_vars

\* two calls with the same arguments in second 0, under the one key the store
\* has had: the second returned another token than the first did
C11_Witness ==
  /\ res.op = "encrypt"
  /\ res.out.ok
  /\ now = 0
  /\ ~HasKey("A", K2)
  /\ Cardinality(drawn) = 2
  /\ \E first \in drawn :
       /\ first # NonceOf(res.out.value)
       /\ encrypt(stores["A"], heap, res.at, res.payload, res.options, RandomJti, first).out
            # res.out

\* what the entropy gate is to refuse: a wrong length, all zero bytes, one
\* byte repeated, fewer than 8 distinct byte values
Refusable(secret) ==
  \/ Len(secret) # 32
  \/ \A i \in 1..Len(secret) : secret[i] = 0
  \/ \A i, j \in 1..Len(secret) : secret[i] = secret[j]
  \/ Cardinality({secret[i] : i \in 1..Len(secret)}) < 8

\* C12: addKey and rotate called with a secret of the wrong length, all zero,
\* of one repeating byte or with fewer than 8 distinct byte values fail with
\* KeyInvalid and leave the key set, the stored secrets and the current key
\* id as they were; a failed rotate does not change the current key.
C12_EntropyGate ==
  [][(res'.op \in {"addKey", "rotate"} /\ Refusable(res'.secret)) =>
       /\ KeyInvalid(res'.out)
       /\ StoreUntouched
       /\ stores'["A"].currentKeyId = stores["A"].currentKeyId
    ]_vars

\* a rotate to a new id with a secret of seven distinct bytes was refused on
\* a store that holds a valid key as its current one
C12_Witness ==
  /\ res.op = "rotate"
  /\ res.secret = LowEntropySecret
  /\ KeyInvalid(res.out)
  /\ ~HasKey("A", res.id)
  /\ stores["A"].currentKeyId = Some(K1)
  /\ Secret("A", K1) = SecretA

(* ------------------------------------------------------------------ *)
(* SpecEntropy: assertEntropy over byte arrays of several lengths and  *)
(* numbers of distinct byte values                                     *)
(* ------------------------------------------------------------------ *)
EntropyLengths == {0, 1, 8, 31, 32, 33}

MaxDistinct == 9

\* a byte array of the given length that cycles through d byte values
\* starting at c: d of them distinct once the length reaches d
Cycling(len, d, c) == Tuple([i \in 1..len |-> ((i % d) * 29 + c) % 256])

EntropyKeys ==
  {Cycling(len, d, c) : len \in EntropyLengths, d \in 1..MaxDistinct, c \in {0, 1, 170}}

NextEntropy == \E key \in EntropyKeys : AssertEntropy(key)

SpecEntropy == Init /\ [][NextEntropy]_vars

DistinctBytes(key) == Cardinality({key[i] : i \in 1..Len(key)})

\* C13: assertEntropy refuses a byte array exactly when its length is not 32,
\* or every byte is zero, or every byte is the same, or it has fewer than 8
\* distinct byte values: it accepts exactly the arrays of 32 bytes with at
\* least 8 distinct values.
C13_EntropyRule ==
  res.op = "assertEntropy" =>
    /\ res.out.ok \/ KeyInvalid(res.out)
    /\ KeyInvalid(res.out) <=> Refusable(res.key)
    /\ res.out.ok <=> (Len(res.key) = 32 /\ DistinctBytes(res.key) >= 8)

\* the boundary: 32 bytes with exactly 8 distinct values, one of them zero,
\* are accepted
C13_Witness ==
  /\ res.op = "assertEntropy"
  /\ Len(res.key) = 32
  /\ DistinctBytes(res.key) = 8
  /\ \E i \in 1..32 : res.key[i] = 0
  /\ res.out.ok

(* ------------------------------------------------------------------ *)
(* SpecWire: the strings encrypt returns, under every key id the store *)
(* accepts                                                             *)
(* ------------------------------------------------------------------ *)
\* addKey takes any string as id: one with a dot in it and the empty one too
DottedId == <<"k", ".", "1">>

EmptyId == <<>>

WireKeyIds == {K1, DottedId, EmptyId}

NextWire ==
  \/ \E id \in WireKeyIds : AddKey("A", id, SecretA)
  \/ \E id \in WireKeyIds : Rotate("A", id, SecretB)
  \/ Encrypt("A", RoleClaims, O_Exp2, RandomJti, RandomNonce)
  \/ IsSome(issued) /\ res.op # "decrypt" /\ Decrypt("A", issued[1].token)

SpecWire == Init /\ [][NextWire]_vars

\* C14: whenever encrypt succeeds the string it returns splits on "." into
\* exactly 5 segments, the first tecto, the second v1, the third the current
\* key id of the store at the call, and decrypt on the same coder does not
\* refuse it as malformed.
C14_WireFormat ==
  (res.op = "encrypt" /\ res.out.ok) =>
    LET segments == Split(res.out.value) IN
    /\ Len(segments) = SEGMENT_COUNT
    /\ segments[1] = TECTO_PREFIX
    /\ segments[2] = TECTO_VERSION
    /\ segments[3] = stores[res.s].currentKeyId[1]
    /\ ~InvalidToken(decrypt(stores[res.s], heap, now, res.out.value).out)

(* ------------------------------------------------------------------ *)
(* SpecBuffer: the buffers behind the secrets: the one the caller      *)
(* hands to addKey and the one a getKey reference points to            *)
(* ------------------------------------------------------------------ *)
NextBuffer ==
  \/ held = None /\ \E bytes \in GoodSecrets \cup {ZeroSecret} : NewBuffer(bytes)
  \/ \E id \in KeyIds : AddKeyOf("A", id)
  \/ \E bytes \in GoodSecrets \cup {ZeroSecret} : WriteBuffer(bytes)
  \/ \E id \in KeyIds : GetKey("A", id)
  \/ Hold
  \/ \E id \in KeyIds : Rotate("A", id, SecretB)
  \/ \E id \in KeyIds : RemoveKey("A", id)

SpecBuffer == Init /\ [][NextBuffer]_vars

\* the bytes a getKey call reads now under the id of the last call
ReadBack == heap[getKey(stores[res.s], heap, res.id).out.value]

\* C15: after addKey(id, secret) has succeeded, whatever the caller writes
\* into its buffer afterwards, zeros included, getKey(id) returns the bytes
\* the buffer held when addKey was called.
C15_PrivateCopy ==
  (res.op = "addKey" /\ res.out.ok) =>
    /\ getKey(stores[res.s], heap, res.id).out.ok
    /\ ReadBack = res.secret

\* the caller has zero-filled the buffer it gave to the last addKey, and the
\* store still reads the secret
C15_Witness ==
  /\ res.op = "addKey"
  /\ res.out.ok
  /\ IsSome(held)
  /\ held[1].own
  /\ held[1].addr = res.buffer
  /\ heap[held[1].addr] = ZeroSecret
  /\ ReadBack = SecretA

\* the caller holds a reference, obtained through getKey, to the buffer the
\* store keeps under id
HoldsBufferOf(s, id) ==
  /\ IsSome(held)
  /\ ~held[1].own
  /\ held[1].s = s
  /\ held[1].id = id
  /\ HasKey(s, id)
  /\ held[1].addr = stores[s].keys[id]

\* C16: a removeKey(id) that succeeds overwrites the buffer of the secret
\* with zeros: a reference to that buffer which the caller got from getKey(id)
\* before the call reads 32 zero bytes after it.
C16_ZeroOnRemove ==
  [][\A id \in KeyIds :
       (RemoveKey("A", id) /\ res'.out.ok /\ HoldsBufferOf("A", id)) =>
         /\ ~(id \in DOMAIN stores'["A"].keys)
         /\ heap'[held[1].addr] = Tuple([i \in 1..32 |-> 0])
    ]_vars

\* the key under which the caller holds a getKey reference has been removed:
\* the entry is gone and the reference reads zeros
C16_Witness ==
  /\ res.op = "removeKey"
  /\ res.out.ok
  /\ IsSome(held)
  /\ ~held[1].own
  /\ held[1].id = res.id
  /\ ~HasKey("A", res.id)
  /\ heap[held[1].addr] = ZeroSecret

\* C17: an addKey(id, secret) that succeeds on a store without keys makes id
\* the current key; one that succeeds on a store with keys leaves the
\* current key id as it was.
C17_FirstKeyCurrent ==
  [][(res'.op = "addKey" /\ res'.out.ok) =>
       IF DOMAIN stores["A"].keys = {}
       THEN stores'["A"].currentKeyId = Some(res'.id)
       ELSE stores'["A"].currentKeyId = stores["A"].currentKeyId
    ]_vars

\* a second key was added under another id: the first is still current
C17_Witness ==
  /\ res.op = "addKey"
  /\ res.out.ok
  /\ res.id = K2
  /\ HasKey("A", K1)
  /\ HasKey("A", K2)
  /\ stores["A"].currentKeyId = Some(K1)

\* C18: rotate(newId, newSecret) ends in the key set, the stored secrets and
\* the current id that addKey(newId, newSecret) followed by making newId
\* current ends in, and fails as that addKey fails; when newId is not yet in
\* the store the size grows by one and every earlier id keeps its secret.
C18_RotateIsAddThenCurrent ==
  [][res'.op = "rotate" =>
       LET added == addKey(stores["A"], heap, res'.id, res'.secret)
           after == [stores EXCEPT !["A"] =
                       [added.store EXCEPT !.currentKeyId = Some(res'.id)]]
       IN /\ added.out.ok =>
               /\ res'.out.ok
               /\ DOMAIN stores'["A"].keys = DOMAIN after["A"].keys
               /\ stores'["A"].currentKeyId = after["A"].currentKeyId
               /\ SecretsOf(stores', heap', "A") = SecretsOf(after, added.heap, "A")
          /\ ~added.out.ok => (res'.out = added.out /\ StoreUntouched)
          /\ (added.out.ok /\ ~HasKey("A", res'.id)) =>
               /\ size(stores'["A"]) = size(stores["A"]) + 1
               /\ \A id \in DOMAIN stores["A"].keys :
                    /\ id \in DOMAIN stores'["A"].keys
                    /\ heap'[stores'["A"].keys[id]] = Secret("A", id)
    ]_vars

\* a rotate to an id the store did not hold: three keys now, the new one
\* current, the two earlier ones with the secrets they had
C18_Witness ==
  /\ res.op = "rotate"
  /\ res.out.ok
  /\ res.id = K3
  /\ size(stores["A"]) = 3
  /\ stores["A"].currentKeyId = Some(K3)
  /\ Secret("A", K1) = SecretA
  /\ Secret("A", K2) = SecretB
  /\ Secret("A", K3) = SecretA

(* ------------------------------------------------------------------ *)
(* SpecEmpty: a coder on a store before and after its first key        *)
(* ------------------------------------------------------------------ *)
\* durations parseDuration refuses: an unknown unit, no number
O_BadExpiry == [NoOptions EXCEPT !.expiresIn = Some(<<"1", "w">>)]

O_BadNotBefore == [NoOptions EXCEPT !.notBefore = Some(<<"s", "o", "o", "n">>), !.jti = JtiJ]

EmptyOptions == {NoOptions, O_Exp2, O_IssAud, O_BadExpiry, O_BadNotBefore}

NextEmpty ==
  \/ \E secret \in {SecretA} \cup WeakSecrets : AddKey("A", K1, secret)
  \/ \E secret \in {ZeroSecret, ShortSecret} : Rotate("A", K2, secret)
  \/ GetCurrentKeyId("A")
  \/ \E payload \in {NoClaims, RoleClaims}, options \in EmptyOptions :
       Encrypt("A", payload, options, RandomJti, RandomNonce)
  \/ Tick

SpecEmpty == Init /\ [][NextEmpty]_vars

\* C19: on a store no key has ever been added to, getCurrentKeyId fails with
\* KeyStoreEmpty, and encrypt on a coder of that store fails with the same
\* error and returns no token, whatever the claims and the options are,
\* options with a duration that does not parse included.
C19_EmptyStore ==
  DOMAIN stores["A"].keys = {} =>
    /\ res.op = "getCurrentKeyId" =>
         (KeyStoreEmpty(res.out) /\ res.out.error.code = "TECTO_KEY_ERROR")
    /\ res.op = "encrypt" =>
         /\ res.out = getCurrentKeyId(stores["A"], heap).out
         /\ KeyStoreEmpty(res.out)
         /\ issued = None

\* encrypt with an expiresIn that does not parse, on a store that holds no
\* key: the error is the store's, not the duration's
C19_Witness ==
  /\ DOMAIN stores["A"].keys = {}
  /\ res.op = "encrypt"
  /\ res.options = O_BadExpiry
  /\ KeyStoreEmpty(res.out)
  /\ issued = None

(* ------------------------------------------------------------------ *)
(* SpecDuration: encrypt with expiresIn and notBefore written in every *)
(* way the duration grammar allows                                     *)
(* ------------------------------------------------------------------ *)
\* the duration n, some white space, the unit as the caller wrote it
Dur(n, gap, letter, unit) ==
  [text |-> NatToString(n) \o gap \o <<letter>>, n |-> n, unit |-> unit]

\* 0s, 120s, 2S, 30m, 3 M, 1h, 1H, 1<tab>h, 7d, 1<space><space>D, 007s
DurationPool ==
  { Dur(0, <<>>, "s", "s"), Dur(120, <<>>, "s", "s"), Dur(2, <<>>, "S", "s"),
    Dur(30, <<>>, "m", "m"), Dur(3, <<" ">>, "M", "m"),
    Dur(1, <<>>, "h", "h"), Dur(1, <<>>, "H", "h"), Dur(1, <<"\t">>, "h", "h"),
    Dur(7, <<>>, "d", "d"), Dur(1, <<" ", " ">>, "D", "d"),
    [text |-> <<"0", "0", "7", "s">>, n |-> 7, unit |-> "s"] }

\* the seconds in a unit
Multiplier(unit) ==
  CASE unit = "s" -> 1 [] unit = "m" -> 60 [] unit = "h" -> 3600 [] unit = "d" -> 86400

DurationTexts == {Some(d.text) : d \in DurationPool}

\* each duration as expiresIn alone and as notBefore alone, and the pairs of
\* "1H" and "3 M" as both
DurationOptions ==
  {[NoOptions EXCEPT !.expiresIn = e, !.jti = JtiJ] : e \in DurationTexts}
  \cup {[NoOptions EXCEPT !.notBefore = n, !.jti = JtiJ] : n \in DurationTexts}
  \cup {[NoOptions EXCEPT !.expiresIn = e, !.notBefore = n, !.jti = JtiJ] :
          e, n \in {Some(<<"1", "H">>), Some(<<"3", " ", "M">>)}}

NextDuration ==
  \/ AddKey("A", K1, SecretA)
  \/ \E options \in DurationOptions :
       Encrypt("A", NoClaims, options, RandomJti, RandomNonce)
  \/ Tick

SpecDuration == Init /\ [][NextDuration]_vars

BadDurations ==
  { <<>>, <<"-", "1", "s">>, <<"1", ".", "5", "h">>, <<"1", "0">>, <<"1", "w">>, <<"h">>,
    <<" ", "1", "h">>, <<"1", "h", " ">>, <<"1", "h", "\n">>, <<"1", "h", "h">> }

InvalidOptions ==
  {[NoOptions EXCEPT !.expiresIn = Some(b)] : b \in BadDurations}
  \cup {[NoOptions EXCEPT !.notBefore = Some(b), !.jti = JtiJ] : b \in BadDurations}
  \cup {[NoOptions EXCEPT !.expiresIn = Seconds(2), !.notBefore = Some(b)] :
          b \in {<<>>, <<"1", "w">>}}
  \cup {O_Exp2}

NextInvalid ==
  \/ AddKey("A", K1, SecretA)
  \/ \E options \in InvalidOptions : Encrypt("A", RoleClaims, options, RandomJti, RandomNonce)
  \/ Tick

SpecInvalid == Init /\ [][NextInvalid]_vars

InvalidDuration(out) == Threw(out, "TectoError") /\ out.error.code = "TECTO_INVALID_DURATION"

\* the option is set to a string outside the duration grammar
SetBadly(option) == IsSome(option) /\ option[1] \in BadDurations

\* C21: on a store with a current key, encrypt with expiresIn or notBefore
\* set to a string that does not match the duration grammar, the empty
\* string among them, fails with InvalidDuration and returns no token.
C21_InvalidDuration ==
  (/\ res.op = "encrypt"
   /\ stores["A"].currentKeyId # None
   /\ (SetBadly(res.options.expiresIn) \/ SetBadly(res.options.notBefore))) =>
    /\ InvalidDuration(res.out)
    /\ ~res.out.ok

(* ------------------------------------------------------------------ *)
(* SpecMerge: encrypt of claims that carry fields named like the       *)
(* registered ones                                                     *)
(* ------------------------------------------------------------------ *)
\* {iat: 7, jti: "c", exp: 9, nbf: 8, iss: "her", aud: "us", role: "admin"}
CallerAll ==
  << <<K_iat, Num(7)>>, <<K_jti, Str(<<"c">>)>>, <<K_exp, Num(9)>>, <<K_nbf, Num(8)>>,
     <<K_iss, Str(<<"h", "e", "r">>)>>, <<K_aud, Str(<<"u", "s">>)>>, <<K_role, Admin>> >>

MergeOptions ==
  { NoOptions, O_Exp2, O_Window, O_IssAud, O_EmptyIssuer,
    [NoOptions EXCEPT !.notBefore = Seconds(1)],
    [NoOptions EXCEPT !.audience = Some(<<"y", "o", "u">>), !.jti = JtiJ],
    [NoOptions EXCEPT !.audience = Some(<<>>)],
    [NoOptions EXCEPT !.jti = Some(<<>>)] }

\* what crypto.getRandomValues may deliver for the jti: mixed bytes, zeros,
\* the highest byte
JtiSeeds == {RandomJti, Tuple([i \in 1..16 |-> 0]), Tuple([i \in 1..16 |-> 255])}

NextMerge ==
  \/ AddKey("A", K1, SecretA)
  \/ \E payload \in {CallerAll, RoleClaims}, options \in MergeOptions :
       Encrypt("A", payload, options, RandomJti, RandomNonce)
  \/ \E randomJti \in JtiSeeds : Encrypt("A", CallerAll, NoOptions, randomJti, RandomNonce)
  \/ Tick

SpecMerge == Init /\ [][NextMerge]_vars

\* the number of seconds a duration option of the pool stands for
SecondsOf(option) == CHOOSE n \in 0..9 : option = Seconds(n)

\* field k of the sealed claims c is as the caller's payload has it
AsCallerHas(c, payload, k) ==
  IF HasField(payload, k)
  THEN HasField(c, k) /\ Field(c, k) = Field(payload, k)
  ELSE ~HasField(c, k)

\* C22: in the sealed claim set iat and jti are those encrypt computed,
\* whatever the caller's fields of these names; exp, nbf, iss and aud are
\* computed from the option when the option is supplied and are the
\* caller's field, unchanged, when it is not.
C22_MergePrecedence ==
  (res.op = "encrypt" /\ res.out.ok) =>
    LET c == SealedClaims(issued[1])
        o == res.options
    IN /\ Field(c, K_iat) = Num(res.at)
       /\ IF IsSome(o.jti) THEN Field(c, K_jti) = Str(o.jti[1])
          ELSE Field(c, K_jti) \in {Str(generateJti(random)) : random \in JtiSeeds}
       /\ IF IsSome(o.expiresIn)
          THEN HasField(c, K_exp) /\ Field(c, K_exp) = Num(res.at + SecondsOf(o.expiresIn))
          ELSE AsCallerHas(c, res.payload, K_exp)
       /\ IF IsSome(o.notBefore)
          THEN HasField(c, K_nbf) /\ Field(c, K_nbf) = Num(res.at + SecondsOf(o.notBefore))
          ELSE AsCallerHas(c, res.payload, K_nbf)
       /\ IF IsSome(o.issuer)
          THEN HasField(c, K_iss) /\ Field(c, K_iss) = Str(o.issuer[1])
          ELSE AsCallerHas(c, res.payload, K_iss)
       /\ IF IsSome(o.audience)
          THEN HasField(c, K_aud) /\ Field(c, K_aud) = Str(o.audience[1])
          ELSE AsCallerHas(c, res.payload, K_aud)

LowerHex == {"0", "1", "2", "3", "4", "5", "6", "7", "8", "9", "a", "b", "c", "d", "e", "f"}

\* C23: every token encrypt returns carries an iat equal to the second of
\* the call, and a jti that is options.jti when the caller gave one and
\* otherwise a generated string of exactly 32 lower-case hexadecimal
\* characters.
C23_IatAndJti ==
  (res.op = "encrypt" /\ res.out.ok) =>
    LET c == SealedClaims(issued[1]) IN
    /\ HasField(c, K_iat)
    /\ Field(c, K_iat) = Num(res.at)
    /\ HasField(c, K_jti)
    /\ Field(c, K_jti)[1] = "str"
    /\ IF IsSome(res.options.jti)
       THEN Field(c, K_jti)[2] = res.options.jti[1]
       ELSE /\ Len(Field(c, K_jti)[2]) = 32
            /\ \A k \in 1..32 : Field(c, K_jti)[2][k] \in LowerHex

\* a token sealed at second 1 from claims that carry their own iat and jti,
\* without options.jti: the jti is the 32 characters made of sixteen ff
C23_Witness ==
  /\ res.op = "encrypt"
  /\ res.out.ok
  /\ res.at = 1
  /\ res.payload = CallerAll
  /\ res.options.jti = None
  /\ Field(SealedClaims(issued[1]), K_iat) = Num(1)
  /\ Field(SealedClaims(issued[1]), K_jti) = Str(Tuple([k \in 1..32 |-> "f"]))

(* ------------------------------------------------------------------ *)
(* SpecForever: tokens sealed without an expiry, decrypted later       *)
(* ------------------------------------------------------------------ *)
\* {nbf: 2, role: "admin"}: a not-before time the caller wrote itself
CallerNbf == << <<K_nbf, Num(2)>>, <<K_role, Admin>> >>

O_NotBefore2 == [NoOptions EXCEPT !.notBefore = Seconds(2), !.jti = JtiJ]

\* the encrypt calls: three without expiresIn and without exp, one with
ForeverCalls ==
  {<<RoleClaims, NoOptions>>, <<NoClaims, O_NotBefore2>>, <<CallerNbf, NoOptions>>,
   <<RoleClaims, O_Exp2>>}

NextForever ==
  \/ AddKey("A", K1, SecretA)
  \/ Rotate("A", K2, SecretB)
  \/ \E call \in ForeverCalls : Encrypt("A", call[1], call[2], RandomJti, RandomNonce)
  \/ IsSome(issued) /\ res.op # "decrypt" /\ Decrypt("A", issued[1].token)
  \/ Tick

SpecForever == Init /\ [][NextForever]_vars

\* the issued token was sealed without expiresIn and without a caller's exp
NoExpiry(i) == ~IsSome(i.options.expiresIn) /\ ~HasField(i.payload, K_exp)

\* C24 as claimed: a token sealed without expiresIn and without an exp field
\* decrypts successfully at every later time, for as long as its key stays
\* in the store unchanged.
C24_NoDefaultExpiryAsClaimed ==
  (DecryptedIssued /\ NoExpiry(issued[1])) => res.out.ok

\* C24: a token sealed without expiresIn and without an exp field never fails
\* with TokenExpired: for as long as its key stays in the store unchanged,
\* decrypt at a later second fails with TokenNotActive while the token's nbf
\* lies ahead and succeeds from then on.
C24_NoDefaultExpiry ==
  (DecryptedIssued /\ NoExpiry(issued[1])) =>
    LET c == SealedClaims(issued[1]) IN
    /\ ~TokenExpired(res.out)
    /\ IF HasNum(c, K_nbf) /\ Field(c, K_nbf)[2] > res.at
       THEN TokenNotActive(res.out)
       ELSE res.out.ok

\* a token sealed at second 0 without any option still decrypts at second 3,
\* after a rotation to another key id
C24_Witness ==
  /\ DecryptedIssued
  /\ issued[1].options = NoOptions
  /\ issued[1].payload = RoleClaims
  /\ issued[1].iat = 0
  /\ res.at = 3
  /\ stores["A"].currentKeyId = Some(K2)
  /\ res.out.ok

(* ------------------------------------------------------------------ *)
(* SpecRace: an encrypt call whose statements are interleaved with     *)
(* key-store calls of other callers, each key-store call atomic        *)
(* ------------------------------------------------------------------ *)
NextRace ==
  \/ AddKey("A", K1, SecretA)
  \/ \E id \in KeyIds : Rotate("A", id, SecretB)
  \/ \E id \in KeyIds : RemoveKey("A", id)
  \/ EncryptGetCurrentKeyId("A", RoleClaims, O_Exp2)
  \/ EncryptGetKey
  \/ EncryptSeal(RandomJti, RandomNonce)
  \/ IsSome(issued) /\ res.op # "decrypt" /\ Decrypt("A", issued[1].token)

SpecRace == Init /\ [][NextRace]_vars

\* the token opens under the key: the nonce and the ciphertext decode and
\* the cipher authenticates them
SealedWith(token, key) ==
  LET seg == Split(token) IN
  AeadOpen(key, Base64urlDecode(seg[4]).bytes, Base64urlDecode(seg[5]).bytes).ok

\* C25: with the statements of encrypt interleaved with addKey, rotate and
\* removeKey calls of other callers, every encrypt call fails with a
\* key-store error or returns a token framed with the kid it read and sealed
\* with the secret the store held under that kid when encrypt read it, never
\* with a buffer that removeKey has zeroed in the meantime.
C25_ConcurrentEncrypt ==
  res.op = "encrypt" =>
    IF res.out.ok
    THEN /\ Split(res.out.value)[3] = res.kid
         /\ SealedWith(res.out.value, res.read)
         /\ ~SealedWith(res.out.value, Tuple([i \in 1..32 |-> 0]))
    ELSE KeyStoreEmpty(res.out) \/ KeyNotFound(res.out)

(* ------------------------------------------------------------------ *)
(* SpecCompare: constantTimeCompare over short byte arrays             *)
(* ------------------------------------------------------------------ *)
MaxArray == 3

CompareBytes == {0, 1, 254}

\* every array of at most MaxArray bytes over CompareBytes
ByteArrays == UNION {[1..n -> CompareBytes] : n \in 0..MaxArray}

\* one call in a behaviour: the function keeps nothing from call to call
NextCompare == res.op = "new" /\ \E a, b \in ByteArrays : ConstantTimeCompare(a, b)

SpecCompare == Init /\ [][NextCompare]_vars

\* C26: constantTimeCompare returns true exactly when the two arrays have
\* the same length and the same byte at every index; it returns false
\* whenever the lengths differ, and gives the same answer with its arguments
\* exchanged.
C26_CompareCorrect ==
  res.op = "constantTimeCompare" =>
    /\ res.out.ok
    /\ res.out.value <=>
         (Len(res.a) = Len(res.b) /\ \A i \in 1..Len(res.a) : res.a[i] = res.b[i])
    /\ Len(res.a) # Len(res.b) => res.out.value = FALSE
    /\ res.out.value = constantTimeCompare(res.b, res.a).value

\* a longer array whose first bytes are those of the shorter one, the rest
\* zero: not equal
C26_Witness ==
  /\ res.op = "constantTimeCompare"
  /\ res.a = <<1, 0>>
  /\ res.b = <<1>>
  /\ res.out.value = FALSE

\* C27: on two arrays of the same length n constantTimeCompare passes through
\* its loop body n times, whatever the bytes: as many times when the arrays
\* differ at the first index as when they are equal.
C27_ConstantSteps ==
  (res.op = "constantTimeCompare" /\ Len(res.a) = Len(res.b)) => res.steps = Len(res.a)

\* arrays of three bytes that differ at the first index: three passes
C27_Witness ==
  /\ res.op = "constantTimeCompare"
  /\ Len(res.a) = 3
  /\ Len(res.b) = 3
  /\ res.a[1] # res.b[1]
  /\ res.steps = 3
  /\ res.out.value = FALSE

\* C28: in every state reached by addKey, rotate, removeKey and getKey calls
\* every secret the store holds is exactly 32 bytes long and passes the
\* entropy validation.
C28_StoredSecretsValid ==
  \A s \in StoreIds : \A id \in DOMAIN stores[s].keys :
    /\ Len(Secret(s, id)) = 32
    /\ assertEntropy(Secret(s, id)).ok
    /\ ~Refusable(Secret(s, id))

\* a store of two keys on which an addKey of an all-zero secret under an id
\* it holds was just refused
C28_Witness ==
  /\ res.op = "addKey"
  /\ res.secret = ZeroSecret
  /\ KeyInvalid(res.out)
  /\ HasKey("A", res.id)
  /\ size(stores["A"]) = 2
  /\ Secret("A", res.id) \in GoodSecrets

(* ------------------------------------------------------------------ *)
(* SpecClosed: decrypt of authentic tokens whose plaintext is JSON but *)
(* not an object                                                       *)
(* ------------------------------------------------------------------ *)
\* tokens sealed under K1 over the texts 5, "x" and [1]
T_Number == Sealed(K1, SecretA, RandomNonce, Stringify(Num(5)))

T_String == Sealed(K1, SecretA, RandomNonce, Stringify(Str(<<"x">>)))

T_Array == Sealed(K1, SecretA, RandomNonce, Stringify(Arr(<<Num(1)>>)))

ClosedTokens == {T_Null, T_Number, T_String, T_Array, T_Live, T_NotJson, T_Empty, T_WrongKey}

NextClosed ==
  \/ AddKey("A", K1, SecretA)
  \/ res.op # "decrypt" /\ \E token \in ClosedTokens : Decrypt("A", token)
  \/ Tick

SpecClosed == Init /\ [][NextClosed]_vars

\* C29: decrypt either returns or fails with InvalidToken, TokenExpired or
\* TokenNotActive, for every input in every store state; an authentic token
\* whose plaintext is JSON other than an object (null, a number, a string,
\* an array) makes it fail with no other kind of error.
C29_ClosedOutcomes ==
  res.op = "decrypt" =>
    \/ res.out.ok
    \/ InvalidToken(res.out)
    \/ TokenExpired(res.out)
    \/ TokenNotActive(res.out)

\* the characters of a string
Chars(s) == {s[i] : i \in 1..Len(s)}

\* C30: the nonce segment and the ciphertext segment of every token encrypt
\* returns are URL-safe base64 without padding: whatever the length of the
\* sealed claims, neither holds the character "=".
C30_NoPadding ==
  (res.op = "encrypt" /\ res.out.ok) =>
    LET segments == Split(res.out.value) IN
    /\ Chars(segments[4]) \subseteq B64Set
    /\ Chars(segments[5]) \subseteq B64Set
    /\ "=" \notin Chars(segments[4]) \cup Chars(segments[5])

\* C31: an addKey(id, secret) with a valid secret and an id the store
\* already holds succeeds: the entry of id then holds a copy of the new
\* bytes in a buffer that is not the caller's, the size is as before and the
\* current key id is as before, also when id is the current key.
C31_SilentOverwrite ==
  [][\A id \in KeyIds :
       (AddKeyOf("A", id) /\ HasKey("A", id) /\ ~Refusable(heap[held[1].addr])) =>
         /\ res'.out = Return(<<>>)
         /\ DOMAIN stores'["A"].keys = DOMAIN stores["A"].keys
         /\ size(stores'["A"]) = size(stores["A"])
         /\ stores'["A"].currentKeyId = stores["A"].currentKeyId
         /\ heap'[stores'["A"].keys[id]] = heap[held[1].addr]
         /\ stores'["A"].keys[id] # held[1].addr
         /\ \A other \in DOMAIN stores["A"].keys \ {id} :
              /\ stores'["A"].keys[other] = stores["A"].keys[other]
              /\ heap'[stores'["A"].keys[other]] = heap[stores["A"].keys[other]]
    ]_vars

\* the current key, first stored with one secret, was added again with
\* another: the store reads the second secret, holds one key and has the
\* same current id
C31_Witness ==
  /\ res.op = "addKey"
  /\ res.out.ok
  /\ res.id = K1
  /\ res.secret = SecretB
  /\ stores["A"].currentKeyId = Some(K1)
  /\ size(stores["A"]) = 1
  /\ Secret("A", K1) = SecretB
  /\ IsSome(held)
  /\ held[1].own
  /\ heap[held[1].addr] = ZeroSecret

(* ------------------------------------------------------------------ *)
(* SpecLoose: tokens whose exp or nbf the caller wrote as something    *)
(* other than a number                                                 *)
(* ------------------------------------------------------------------ *)
\* {exp: "1", role: "admin"}: an expiry written as a numeric string
CallerExpText == << <<K_exp, Str(<<"1">>)>>, <<K_role, Admin>> >>

\* {nbf: "2"}
CallerNbfText == << <<K_nbf, Str(<<"2">>)>> >>

\* {exp: "1", nbf: "2"}
CallerBothText == << <<K_exp, Str(<<"1">>)>>, <<K_nbf, Str(<<"2">>)>> >>

\* {exp: null, nbf: true}
CallerExpNull == << <<K_exp, Null>>, <<K_nbf, <<"bool", TRUE>>>> >>

\* {exp: [1], nbf: {}}
CallerExpArray == << <<K_exp, Arr(<<Num(1)>>)>>, <<K_nbf, Obj(<<>>)>> >>

\* the encrypt calls: non-number time claims alone, beside a number in the
\* other field, and replaced by the number an option computes
LooseCalls ==
  {<<CallerExpText, NoOptions>>, <<CallerNbfText, NoOptions>>, <<CallerBothText, NoOptions>>,
   <<CallerExpNull, NoOptions>>, <<CallerExpArray, NoOptions>>,
   <<CallerExpText, O_NotBefore2>>, <<CallerNbfText, O_Exp2>>,
   <<CallerExpText, O_Exp2>>, <<CallerNbfText, O_NotBefore2>>}

NextLoose ==
  \/ AddKey("A", K1, SecretA)
  \/ \E call \in LooseCalls : Encrypt("A", call[1], call[2], RandomJti, RandomNonce)
  \/ IsSome(issued) /\ res.op # "decrypt" /\ Decrypt("A", issued[1].token)
  \/ Tick

SpecLoose == Init /\ [][NextLoose]_vars

\* the sealed claims hold field k and its value is not a number
NonNumber(c, k) == HasField(c, k) /\ ~IsNum(Field(c, k))

\* C32: decrypt of an authentic token never fails with TokenExpired when the
\* sealed exp is not a number and never fails with TokenNotActive when the
\* sealed nbf is not a number; a token with such a field and no number in
\* the other time field is returned, claims as sealed, at every second.
C32_NonNumberTimeClaims ==
  DecryptedIssued =>
    LET c == SealedClaims(issued[1]) IN
    /\ NonNumber(c, K_exp) => ~TokenExpired(res.out)
    /\ NonNumber(c, K_nbf) => ~TokenNotActive(res.out)
    /\ ((NonNumber(c, K_exp) \/ NonNumber(c, K_nbf))
        /\ ~HasNum(c, K_exp) /\ ~HasNum(c, K_nbf))
       => res.out = Return(Obj(c))

\* {exp: "1", role: "admin"} sealed at second 0 is returned at second 3, with
\* exp still the string "1"
C32_Witness ==
  /\ DecryptedIssued
  /\ issued[1].payload = CallerExpText
  /\ issued[1].options = NoOptions
  /\ issued[1].iat = 0
  /\ res.at = 3
  /\ res.out.ok
  /\ Field(res.out.value[2], K_exp) = Str(<<"1">>)

\* C33: decrypt of an authentic token that has, at the second of the call,
\* both exp <= now and nbf > now fails with TokenExpired, carrying exp, and
\* not with TokenNotActive.
C33_ExpiryBeforeActivation ==
  DecryptedIssued =>
    LET c == SealedClaims(issued[1]) IN
    (HasNum(c, K_exp) /\ Field(c, K_exp)[2] <= res.at
     /\ HasNum(c, K_nbf) /\ Field(c, K_nbf)[2] > res.at)
    => /\ res.out = Throw(TokenExpiredError(Date(Field(c, K_exp)[2] * 1000)))
       /\ ~TokenNotActive(res.out)

\* a token sealed at second 0 with expiresIn 1s and notBefore 2s, opened at
\* second 1: expired and not yet active at once
C33_Witness ==
  /\ DecryptedIssued
  /\ issued[1].options = O_Closed
  /\ issued[1].iat = 0
  /\ res.at = 1
  /\ TokenExpired(res.out)

\* the place of a decrypt outcome in the life of a token: not yet active,
\* accepted, expired
Rank(out) ==
  IF TokenNotActive(out) THEN 0
  ELSE IF out.ok THEN 1
  ELSE IF TokenExpired(out) THEN 2
  ELSE 3

\* C34: with the key store unchanged, of two decrypt calls on the same
\* authentic token the later one never gives an earlier outcome in the order
\* TokenNotActive, success, TokenExpired, so that after a TokenExpired every
\* later call fails with TokenExpired; and a token whose nbf is not before
\* its exp is accepted at no second.
C34_MonotoneInTime ==
  [][DecryptedIssued' =>
       LET c == SealedClaims(issued[1]) IN
       /\ Rank(res'.out) \in 0..2
       /\ (DecryptedIssued /\ stores' = stores /\ res'.at >= res.at) =>
            /\ Rank(res'.out) >= Rank(res.out)
            /\ TokenExpired(res.out) => TokenExpired(res'.out)
       /\ (HasNum(c, K_exp) /\ HasNum(c, K_nbf)
           /\ Field(c, K_nbf)[2] >= Field(c, K_exp)[2]) => ~res'.out.ok
    ]_vars

\* a token sealed at second 0 with notBefore 1s and expiresIn 3s, refused as
\* expired at second 3, that the same store refuses as not yet active at
\* second 0 and accepts at seconds 1 and 2
C34_Witness ==
  /\ DecryptedIssued
  /\ issued[1].options = O_Window
  /\ issued[1].iat = 0
  /\ res.at = 3
  /\ TokenExpired(res.out)
  /\ TokenNotActive(decrypt(stores["A"], heap, 0, res.token).out)
  /\ decrypt(stores["A"], heap, 1, res.token).out.ok
  /\ decrypt(stores["A"], heap, 2, res.token).out.ok

(* ------------------------------------------------------------------ *)
(* SpecRevoke: tokens of a key that is rotated away from, removed and  *)
(* added again                                                         *)
(* ------------------------------------------------------------------ *)
\* tokens that are live for two seconds, expired from the start, and not yet
\* active for two seconds, and a call that encrypt refuses for its duration
RevokeCalls ==
  {<<RoleClaims, O_Exp2>>, <<NoClaims, O_Zero>>, <<NoClaims, O_NotBefore2>>,
   <<RoleClaims, O_BadExpiry>>}

NextRevoke ==
  \/ AddKey("A", K1, SecretA)
  \/ Rotate("A", K2, SecretB)
  \/ \E id \in KeyIds : RemoveKey("A", id)
  \/ \E call \in RevokeCalls : Encrypt("A", call[1], call[2], RandomJti, RandomNonce)
  \/ IsSome(issued) /\ res.op # "decrypt" /\ Decrypt("A", issued[1].token)
  \/ Tick

SpecRevoke == Init /\ [][NextRevoke]_vars

\* C35: a removeKey(id) that succeeds leaves the store refusing every token
\* whose kid is id with InvalidToken, and decrypt of such a token fails with
\* InvalidToken for as long as no key is stored under id, whether or not the
\* token has expired or is not yet active.
C35_RevocationEffective ==
  [][IsSome(issued) =>
       /\ \A id \in KeyIds :
            (RemoveKey("A", id) /\ res'.out.ok /\ issued[1].kid = id) =>
              InvalidToken(decrypt(stores'["A"], heap', now', issued[1].token).out)
       /\ (res'.op = "decrypt" /\ res'.token = issued[1].token
           /\ ~(issued[1].kid \in DOMAIN stores'["A"].keys)) =>
            InvalidToken(res'.out)
    ]_vars

\* a token sealed under k1 with expiresIn 0s, expired from the start, is
\* refused as invalid and not as expired once k1 has been removed
C35_Witness ==
  /\ res.op = "decrypt"
  /\ IsSome(issued)
  /\ res.token = issued[1].token
  /\ issued[1].kid = K1
  /\ issued[1].options = O_Zero
  /\ ~HasKey("A", K1)
  /\ stores["A"].currentKeyId = Some(K2)
  /\ InvalidToken(res.out)

(* ------------------------------------------------------------------ *)
(* SpecLasting: a store under addKey, rotate and removeKey, accepted   *)
(* and refused, with encrypt calls in between                          *)
(* ------------------------------------------------------------------ *)
NextLasting ==
  \/ \E id \in KeyIds, secret \in {SecretA, ZeroSecret} : AddKey("A", id, secret)
  \/ \E id \in KeyIds, secret \in {SecretB, ZeroSecret} : Rotate("A", id, secret)
  \/ \E id \in KeyIds : RemoveKey("A", id)
  \/ Encrypt("A", RoleClaims, O_Exp2, RandomJti, RandomNonce)

SpecLasting == Init /\ [][NextLasting]_vars

\* C36: from the first addKey or rotate that succeeds, every step of addKey,
\* rotate, removeKey and encrypt leaves a store of at least one key on which
\* getCurrentKeyId succeeds and getKey of the current id succeeds, and every
\* encrypt call returns a token: none fails with a key-store error.
C36_NeverEmptyAgain ==
  [][(\/ size(stores["A"]) >= 1
      \/ (res'.op \in {"addKey", "rotate"} /\ res'.out.ok)) =>
       /\ size(stores'["A"]) >= 1
       /\ getCurrentKeyId(stores'["A"], heap').out.ok
       /\ getKey(stores'["A"], heap', getCurrentKeyId(stores'["A"], heap').out.value).out.ok
       /\ res'.op = "encrypt" =>
            /\ res'.out.ok
            /\ ~Threw(res'.out, "KeyError")
    ]_vars

\* a token was sealed under k1, the store was rotated to k2 and k1 was
\* removed: one key is left and it is the current one
C36_Witness ==
  /\ res.op = "removeKey"
  /\ res.out.ok
  /\ res.id = K1
  /\ IsSome(issued)
  /\ issued[1].kid = K1
  /\ size(stores["A"]) = 1
  /\ stores["A"].currentKeyId = Some(K2)
  /\ getKey(stores["A"], heap, K2).out.ok

\* C37: an encrypt or decrypt call, whatever its outcome, leaves every store
\* with the key ids, the buffers, the bytes of every secret and the current
\* key id it had before the call.
C37_CodecLeavesStore ==
  [][res'.op \in {"encrypt", "decrypt"} =>
       /\ stores' = stores
       /\ \A s \in StoreIds :
            /\ DOMAIN stores'[s].keys = DOMAIN stores[s].keys
            /\ stores'[s].currentKeyId = stores[s].currentKeyId
            /\ SecretsOf(stores', heap', s) = SecretsOf(stores, heap, s)
    ]_vars

\* an encrypt call was refused for its duration, after it had fetched the
\* key, on a store of two keys
C37_Witness ==
  /\ res.op = "encrypt"
  /\ res.options = O_BadExpiry
  /\ InvalidDuration(res.out)
  /\ size(stores["A"]) = 2
  /\ Secret("A", K1) = SecretA
  /\ Secret("A", K2) = SecretB
  /\ stores["A"].currentKeyId = Some(K2)

\* C38: a secret buffer the store has let go of, through removeKey or through
\* an addKey or rotate that replaced the secret of its id, was filled with
\* zeros first: a reference to it that a caller got from getKey reads 32
\* zero bytes once no store holds the buffer.
C38_WipeBeforeRelease ==
  (IsSome(held) /\ ~held[1].own
   /\ \A s \in StoreIds : \A id \in DOMAIN stores[s].keys : stores[s].keys[id] # held[1].addr)
  => heap[held[1].addr] = ZeroSecret

(* ------------------------------------------------------------------ *)
(* SpecSqlite: a SqliteKeyStore under addKey, rotate and removeKey,    *)
(* and instances opened on its file                                    *)
(* ------------------------------------------------------------------ *)
\* the live instance is used until it is closed and the file opened again
NextSqlite ==
  /\ res.op # "sqlite.new"
  /\ \/ \E id \in KeyIds, secret \in {SecretA, ZeroSecret} : SqliteAddKey(id, secret)
     \/ \E id \in KeyIds, secret \in {SecretB, ZeroSecret} : SqliteRotate(id, secret)
     \/ \E id \in KeyIds : SqliteRemoveKey(id)
     \/ NewSqliteKeyStore
     \/ Tick

SpecSqlite == Init /\ [][NextSqlite]_vars

\* the in-memory store an instance opened on the file now would have
Reopened(order) == loadFromDb(db, order, heap)

\* C39: after every call of addKey, rotate and removeKey on a SqliteKeyStore,
\* returned or thrown, an instance opened on the same file holds the key
\* ids, the secrets and the current key id of the live instance, and the
\* table has exactly one row marked current unless the store is empty.
C39_DatabaseInStep ==
  /\ \A order \in RowOrders(db) :
       LET fresh == Reopened(order) IN
       /\ fresh.out.ok
       /\ DOMAIN fresh.store.keys = DOMAIN stores["A"].keys
       /\ fresh.store.currentKeyId = stores["A"].currentKeyId
       /\ \A id \in DOMAIN stores["A"].keys :
            fresh.heap[fresh.store.keys[id]] = Secret("A", id)
  /\ size(stores["A"]) >= 1 =>
       Cardinality({i \in 1..Len(db) : db[i].is_current = 1}) = 1

====
